---------------------------- MODULE Spec2Model ----------------------------
(*************************************************************************)
(* A model of the Game Boy emulator core: the Z80-like CPU (cpu.py), the *)
(* scanline GPU (gpu.py), the flat memory (memory.py) and the bus that   *)
(* couples them (system_interface.py).                                   *)
(*                                                                       *)
(* One call of GbZ80Cpu.execute_next_operation is modelled by two        *)
(* actions taken in sequence: Execute (fetch, handler, _inc_clock with   *)
(* the GPU step) and HandleInterrupts (handle_interrupts).  The variable *)
(* phase is the position inside that call; phase = "fetch" is an         *)
(* instruction boundary, "raised" and "exited" end the run (a Python     *)
(* exception left the call, or sys.exit was called); "constructed" is    *)
(* the machine before load_rom_image.                                    *)
(*                                                                       *)
(* The cartridge is an input, chosen lazily: a byte of ROM               *)
(* (0x0000..0x7FFF, a 32 KiB image) is drawn from the bounded sets of    *)
(* the specification when the program first reads it and is part of      *)
(* memory from then on.  RAM is zero after load_rom_image.  Execute is   *)
(* enabled only for the opcodes listed in Handled.                       *)
(*                                                                       *)
(* Of GbGpu, the fields the mode handlers use are kept: linemode,        *)
(* _mode_clock, vblank_counter, the tile cache as its non-zero rows, and *)
(* the framebuffer as the set of lines _renderscan has drawn.            *)
(*                                                                       *)
(* Spec runs the opcodes of SpecOps for MaxInstr instructions, SpecIrq    *)
(* the interrupt instructions for MaxInstrIrq, SpecFrame a looping       *)
(* cartridge for MaxInstrFrame instructions, past the first V-blank and  *)
(* the first wrap of LY, SpecBus the loads and stores of A at a 16-bit   *)
(* address for MaxInstrBus instructions, SpecStack PUSH and POP of the   *)
(* four register pairs for MaxInstrStack instructions, SpecCall CALL and *)
(* RET for MaxInstrCall instructions, SpecMisc relative jumps, SP        *)
(* arithmetic, the CB prefix and an unimplemented opcode for             *)
(* MaxInstrMisc instructions.  SpecJr runs the conditional relative      *)
(* jumps, SpecCycles jumps, calls, returns and restarts, SpecSub SUB,    *)
(* SBC and CP, SpecAdd ADD and ADC, SpecInc INC r and DEC r, SpecRot the *)
(* rotates of A and SpecHl ADD HL,rr, each for its own MaxInstr bound.   *)
(*                                                                       *)
(* SpecTimer programs the timer registers, SpecRst runs the restarts and *)
(* RETI, SpecFlag CPL, CCF, SCF and DAA.  SpecLoad starts before         *)
(* load_rom_image, with the cartridge header as the input.  SpecGpu      *)
(* drives GbGpu.step alone with steps of up to MaxStep m-cycles for      *)
(* MaxFrames frames.  SpecLcd is a looping cartridge run for MaxInstrLcd *)
(* instructions, two frames at the least; it is the specification with a *)
(* fairness condition: an execute_next_operation that has run its        *)
(* handler goes on to handle_interrupts.                                 *)
(*************************************************************************)
EXTENDS Integers, Sequences, FiniteSets, TLC

VARIABLES
    registers,   \* GbZ80Cpu.registers: a f b c d e h l ime pc sp m
    rsv,         \* GbZ80Cpu.rsv: the register copy of _rsv / _rrs
    clock,       \* GbZ80Cpu.clock['m']
    memory,      \* GbMemory.memory: the bytes stored so far (sparse)
    gpu,         \* GbGpu: linemode, mode_clock, vblank_counter, tile_set, screen
    my_counter,  \* cpu.my_counter: instructions started
    op,          \* the opcode fetched by the running/last execute_next_operation
    phase        \* "constructed" | "fetch" | "interrupts" | "raised" |
                 \* "exited"

vars == <<registers, rsv, clock, memory, gpu, my_counter, op, phase>>

-----------------------------------------------------------------------------
(* Bounds of the model.                                                    *)

\* Instructions executed from power-on in Spec.
MaxInstr == 3
\* Instructions executed from power-on in SpecIrq.
MaxInstrIrq == 4
\* Instructions of SpecFrame that may be other than the loop's.
SetupInstr == 2
\* Instructions executed from power-on in SpecFrame.
MaxInstrFrame == 1700
\* Instructions executed from power-on in SpecBus.
MaxInstrBus == 3
\* Instructions executed from power-on in SpecStack.
MaxInstrStack == 3
\* Instructions executed from power-on in SpecCall.
MaxInstrCall == 3
\* Instructions executed from power-on in SpecMisc.
MaxInstrMisc == 3
\* Instructions executed from power-on in SpecJr.
MaxInstrJr == 3
\* Instructions executed from power-on in SpecCycles.
MaxInstrCycles == 3
\* Instructions executed from power-on in SpecSub.
MaxInstrSub == 3
\* Instructions executed from power-on in SpecAdd.
MaxInstrAdd == 3
\* Instructions executed from power-on in SpecInc.
MaxInstrInc == 3
\* Instructions executed from power-on in SpecRot.
MaxInstrRot == 3
\* Instructions executed from power-on in SpecHl.
MaxInstrHl == 3
\* Instructions executed from power-on in SpecTimer.
MaxInstrTimer == 4
\* The largest number of cycles of one GbGpu.step in SpecGpu (6 machine
\* cycles are 24).
MaxStep == 24
\* V-blanks entered in SpecGpu.
MaxFrames == 2
\* Instructions executed from power-on in SpecFlag.
MaxInstrFlag == 3
\* Instructions executed from power-on in SpecRst.
MaxInstrRst == 3
\* Instructions of 2 or 3 machine cycles within which a frame of the GPU
\* ends: 144 lines of at most 7 + 3 + 6 instructions and 10 V-blank lines
\* of at most 15 are 2454.
FrameInstr == 2500
\* Instructions executed from power-on in SpecLcd (two frames).
MaxInstrLcd == 5000

-----------------------------------------------------------------------------
(* Bytes and bits (Python's &, |, ~, >> on unbounded integers).            *)

Bit(x, i) == (x \div (2 ^ i)) % 2

\* x & y for a non-negative y below 2^8 (x may be negative: Python's
\* integers are two's complement of unbounded width).
And8(x, y) ==
    LET b(i) == Bit(x, i) * Bit(y, i) * (2 ^ i)
    IN  b(0) + b(1) + b(2) + b(3) + b(4) + b(5) + b(6) + b(7)

\* x | y for bytes.
Or8(x, y) == x + y - And8(x, y)

\* x & ~y for a byte x and a byte y.
AndNot8(x, y) == x - And8(x, y)

-----------------------------------------------------------------------------
(* memory.py: GbMemory over array.array('B', 65536 zeros).                 *)

\* array indexing: -65536..65535 are valid, negative indices count from
\* the end; anything else raises IndexError.
ValidIndex(address) == address >= -65536 /\ address <= 65535

Index(address) == address % 65536

\* The cells of the cartridge area that no read or write has fixed yet.
Unknown(mem, addresses) ==
    {i \in {Index(a) : a \in {x \in addresses : ValidIndex(x)}} :
        i < 32768 /\ i \notin DOMAIN mem}

\* GbMemory.read_byte (test_mode is False) at a valid index.  The
\* actions fix every cartridge byte an operation reads before they
\* apply it, so the last branch is a RAM cell never written.
read_byte(mem, address) ==
    LET i == Index(address)
    IN  IF i \in DOMAIN mem THEN mem[i] ELSE 0

\* GbMemory.read_word
read_word(mem, address) ==
    read_byte(mem, address) + 256 * read_byte(mem, address + 1)

\* GbMemory.write_byte: no region is protected.  RAM cells holding 0 are
\* dropped from the sparse store (0 is what a cell never written holds).
mem_write(mem, address, value) ==
    LET i == Index(address)
        keep == IF i >= 32768 /\ value = 0
                THEN DOMAIN mem \ {i}
                ELSE DOMAIN mem \cup {i}
    IN  [x \in keep |-> IF x = i THEN value ELSE mem[x]]

-----------------------------------------------------------------------------
(* gpu.py.  The functions below work on the machine record s:              *)
(*   s.registers, s.rsv, s.clock, s.memory, s.gpu, s.raised                *)
(* s.raised is set when a Python exception left the handler.               *)

IO_TIMA == 65285   \* 0xFF05
IO_TMA  == 65286   \* 0xFF06
IO_TAC  == 65287   \* 0xFF07
IO_IF   == 65295   \* 0xFF0F
IO_LCDC == 65344   \* 0xFF40  register_map['lcd_gpu_ctrl']
IO_STAT == 65345   \* 0xFF41  register_map['stat']
IO_SCY  == 65346   \* 0xFF42
IO_SCX  == 65347   \* 0xFF43
IO_LY   == 65348   \* 0xFF44  register_map['curr_line']
IO_LYC  == 65349   \* 0xFF45  register_map['raster']
IO_IE   == 65535   \* 0xFFFF

Raise(s) == [s EXCEPT !.raised = TRUE]

\* GbGpu.update_tile: recompute one row of the tile cache.  The two bytes
\* are read at addr & 0x1FFE and at the next address.
update_tile(s, addr) ==
    LET base_addr  == And8(addr, 254) + 256 * And8(addr \div 256, 31)
        tile_index == (base_addr \div 16) % 512
        row        == (base_addr \div 2) % 8
        byte1      == read_byte(s.memory, base_addr)
        byte2      == read_byte(s.memory, base_addr + 1)
        pixels     == [x \in 0..7 |-> Bit(byte1, 7 - x) + 2 * Bit(byte2, 7 - x)]
        key        == <<tile_index, row>>
        ts         == s.gpu.tile_set
        keep       == IF \A x \in 0..7 : pixels[x] = 0
                      THEN DOMAIN ts \ {key}
                      ELSE DOMAIN ts \cup {key}
    IN  [s EXCEPT !.gpu.tile_set =
            [k \in keep |-> IF k = key THEN pixels ELSE ts[k]]]

\* GbSystemInterface.write_byte: store, then refresh the tile cache for
\* a write into 0x8000..0x97FF.
write_byte(s, address, value) ==
    IF s.raised THEN s
    ELSE IF ~ValidIndex(address) THEN Raise(s)
    ELSE LET s1 == [s EXCEPT !.memory = mem_write(s.memory, address, value)]
         IN  IF address >= 32768 /\ address <= 38911
             THEN update_tile(s1, address)
             ELSE s1

\* GbGpu.read_reg: the GPU's registers live in RAM.
read_reg(s, address) == read_byte(s.memory, address)

\* GbGpu.write_reg
write_reg(s, address, val) == write_byte(s, address, val)

\* GbGpu._update_stat_register: bits 0-1 the mode, bit 2 always set,
\* bit 3 set when LY = LYC; only bits 0-2 of the old value are cleared.
_update_stat_register(s) ==
    LET old  == read_reg(s, IO_STAT)
        kept == And8(old, 248)
        mode == And8(s.gpu.linemode, 3)
        coin == IF read_reg(s, IO_LY) = read_reg(s, IO_LYC) THEN 8 ELSE 0
    IN  write_reg(s, IO_STAT, Or8(Or8(Or8(kept, mode), 4), coin))

\* GbGpu._renderscan: nothing is drawn during the first 10 frames, nor
\* with the display or the background switched off (LCDC bits 7 and 0).
\* The framebuffer is kept as the set of lines drawn.
_renderscan(s) ==
    LET line == read_reg(s, IO_LY)
        lcdc == read_reg(s, IO_LCDC)
    IN  IF s.gpu.vblank_counter < 10 THEN s
        ELSE IF Bit(lcdc, 7) = 0 \/ Bit(lcdc, 0) = 0 THEN s
        ELSE [s EXCEPT !.gpu.screen = @ \cup {line}]

\* GbGpu._h_blank_render_screen (mode 0)
_h_blank_render_screen(s) ==
    IF s.gpu.mode_clock >= 51
    THEN LET curr_line == read_reg(s, IO_LY)
             s1 == IF curr_line = 143
                   THEN LET g == [s EXCEPT !.gpu.linemode = 1,
                                           !.gpu.vblank_counter = @ + 1]
                        IN  write_byte(g, IO_IF, Or8(read_reg(g, IO_IF), 1))
                   ELSE [s EXCEPT !.gpu.linemode = 2]
             s2 == _update_stat_register(s1)
             s3 == write_reg(s2, IO_LY, (curr_line + 1) % 256)
         IN  [s3 EXCEPT !.gpu.mode_clock = 0]
    ELSE s

\* GbGpu._v_blank (mode 1)
_v_blank(s) ==
    IF s.gpu.mode_clock >= 114
    THEN LET s1 == [s EXCEPT !.gpu.mode_clock = 0]
             s2 == write_reg(s1, IO_LY, (read_reg(s1, IO_LY) + 1) % 256)
         IN  IF read_reg(s2, IO_LY) > 153
             THEN _update_stat_register(
                      [write_reg(s2, IO_LY, 0) EXCEPT !.gpu.linemode = 2])
             ELSE s2
    ELSE s

\* GbGpu._oam_read_mode (mode 2)
_oam_read_mode(s) ==
    IF s.gpu.mode_clock >= 20
    THEN _update_stat_register(
             [s EXCEPT !.gpu.mode_clock = 0, !.gpu.linemode = 3])
    ELSE s

\* _vram_read_mode without self._mode_clock = 0.
VramReadKeepingClock(s) ==
    IF s.gpu.mode_clock >= 43
    THEN _renderscan(_update_stat_register([s EXCEPT !.gpu.linemode = 0]))
    ELSE s

\* GbGpu._vram_read_mode (mode 3)
_vram_read_mode(s) ==
    IF s.gpu.mode_clock >= 43
    THEN _renderscan(_update_stat_register(
             [s EXCEPT !.gpu.mode_clock = 0, !.gpu.linemode = 0]))
    ELSE s

\* GbGpu.step: add the cycles, then run the handler of the current mode
\* once.
step(s, m) ==
    LET s1 == [s EXCEPT !.gpu.mode_clock = @ + m]
    IN  CASE s.gpu.linemode = 0 -> _h_blank_render_screen(s1)
          [] s.gpu.linemode = 1 -> _v_blank(s1)
          [] s.gpu.linemode = 2 -> _oam_read_mode(s1)
          [] s.gpu.linemode = 3 -> _vram_read_mode(s1)

-----------------------------------------------------------------------------
(* cpu.py: helpers.                                                        *)

\* An assignment to self.registers[r]; skipped once an exception is
\* propagating.
SetReg(s, r, v) == IF s.raised THEN s ELSE [s EXCEPT !.registers[r] = v]

\* The IndexError of a read outside the array.
CheckIndex(s, address) ==
    IF s.raised \/ ValidIndex(address) THEN s ELSE Raise(s)

\* GbZ80Cpu.read8 (the value; CheckIndex carries the exception)
read8(s, address) == read_byte(s.memory, address)

\* GbZ80Cpu.read16
read16(s, address) == read_word(s.memory, address)

\* GbZ80Cpu.write8
write8(s, address, val) == write_byte(s, address, val)

\* GbZ80Cpu.write16: low byte at address, high byte at address + 1.
write16(s, address, val) ==
    write_byte(write_byte(s, address, val % 256),
               address + 1, (val \div 256) % 256)

\* GbZ80Cpu._inc_clock: the GPU is stepped with four times the machine
\* cycles of the instruction.
_inc_clock(s) ==
    step([s EXCEPT !.clock = @ + s.registers.m], s.registers.m * 4)

\* The tile-cache reads GbSystemInterface.write_byte causes for a store
\* at address.
TileReads(address) ==
    IF address >= 32768 /\ address <= 38911
    THEN LET base_addr == And8(address, 254) + 256 * And8(address \div 256, 31)
         IN  {base_addr, base_addr + 1}
    ELSE {}

-----------------------------------------------------------------------------
(* cpu.py: opcode handlers.  pc has been incremented past the opcode.      *)

\* GbZ80Cpu._nop
_nop(s) == SetReg(s, "m", 1)

\* GbZ80Cpu._halt: only the cycle count is set.
_halt(s) == SetReg(s, "m", 1)

\* GbZ80Cpu._ld_rn: pc is incremented without a mask.
_ld_rn(s, r) ==
    LET pc == s.registers.pc
        s1 == SetReg(CheckIndex(s, pc), r, read8(s, pc))
        s2 == SetReg(s1, "pc", pc + 1)
    IN  SetReg(s2, "m", 2)

\* GbZ80Cpu._ld_sp_nn
_ld_sp_nn(s) ==
    LET pc == s.registers.pc
        s1 == SetReg(CheckIndex(CheckIndex(s, pc), pc + 1), "sp", read16(s, pc))
        s2 == SetReg(s1, "pc", pc + 2)
    IN  SetReg(s2, "m", 3)

\* GbZ80Cpu._ldh_n_a
_ldh_n_a(s) ==
    LET pc == s.registers.pc
        n  == read8(s, pc)
        s1 == write8(CheckIndex(s, pc), 65280 + n, s.registers.a)
        s2 == SetReg(s1, "pc", pc + 1)
    IN  SetReg(s2, "m", 3)

\* GbZ80Cpu._jr_n: the displacement is signed; pc is not masked.
_jr_n(s) ==
    LET pc == s.registers.pc
        n  == read8(s, pc)
        i  == IF n < 128 THEN n ELSE n - 256
        s1 == SetReg(CheckIndex(s, pc), "pc", pc + 1 + i)
    IN  SetReg(s1, "m", 3)

\* GbZ80Cpu._di
_di(s) == SetReg(SetReg(s, "ime", 0), "m", 1)

\* GbZ80Cpu._ei: ime is set at once.
_ei(s) == SetReg(SetReg(s, "ime", 1), "m", 1)

\* _push_nn storing the pair low byte first: r2 at sp - 1, r1 at sp - 2.
PushLowByteFirst(s, r1, r2) ==
    LET sp == s.registers.sp
        s1 == write8(SetReg(s, "sp", sp - 1), sp - 1, s.registers[r2])
        s2 == write8(SetReg(s1, "sp", sp - 2), sp - 2, s.registers[r1])
    IN  SetReg(s2, "m", 3)

\* GbZ80Cpu._push_nn: sp is decremented without a mask.
_push_nn(s, r1, r2) ==
    LET sp == s.registers.sp
        s1 == write8(SetReg(s, "sp", sp - 1), sp - 1, s.registers[r1])
        s2 == write8(SetReg(s1, "sp", sp - 2), sp - 2, s.registers[r2])
    IN  SetReg(s2, "m", 3)

\* GbZ80Cpu._pop_nn: the bytes read are stored as they are; sp is
\* incremented without a mask.
_pop_nn(s, r1, r2) ==
    LET sp == s.registers.sp
        s1 == SetReg(CheckIndex(s, sp), r2, read8(s, sp))
        s2 == SetReg(s1, "sp", sp + 1)
        s3 == SetReg(CheckIndex(s2, sp + 1), r1, read8(s, sp + 1))
        s4 == SetReg(s3, "sp", sp + 2)
    IN  SetReg(s4, "m", 3)

\* GbZ80Cpu._ld_nn_a: A is stored at the 16-bit immediate address.
_ld_nn_a(s) ==
    LET pc == s.registers.pc
        address == read16(s, pc)
        s1 == write8(CheckIndex(CheckIndex(s, pc), pc + 1),
                     address, s.registers.a)
        s2 == SetReg(s1, "pc", pc + 2)
    IN  SetReg(s2, "m", 4)

\* GbZ80Cpu._ld_a_nn: A is loaded from the 16-bit immediate address.
_ld_a_nn(s) ==
    LET pc == s.registers.pc
        address == read16(s, pc)
        s1 == SetReg(CheckIndex(CheckIndex(s, pc), pc + 1),
                     "a", read8(s, address))
        s2 == SetReg(s1, "pc", pc + 2)
    IN  SetReg(s2, "m", 4)

\* GbZ80Cpu._call_nn: the return address pc + 2 is stored first, then
\* the target is read at pc.
_call_nn(s) ==
    LET pc == s.registers.pc
        sp == s.registers.sp - 2
        s1 == write16(SetReg(s, "sp", sp), sp, pc + 2)
        s2 == SetReg(CheckIndex(CheckIndex(s1, pc), pc + 1),
                     "pc", read16(s1, pc))
    IN  SetReg(s2, "m", 5)

\* GbZ80Cpu._ret
_ret(s) ==
    LET sp == s.registers.sp
        s1 == SetReg(CheckIndex(CheckIndex(s, sp), sp + 1),
                     "pc", read16(s, sp))
        s2 == SetReg(s1, "sp", sp + 2)
    IN  SetReg(s2, "m", 3)

\* GbZ80Cpu._raise_opcode_unimplemented: Exception("Opcode unimplemented!")
_raise_opcode_unimplemented(s) == Raise(s)

\* GbZ80Cpu._raise_cb_op_unimplemented
_raise_cb_op_unimplemented(s) == _raise_opcode_unimplemented(s)

\* GbZ80Cpu._rlc_n: rotate register n left; carry from the old bit 7,
\* zero when the result is 0.
_rlc_n(s, n) ==
    LET old == s.registers[n]
        ci  == IF And8(old, 128) # 0 THEN 1 ELSE 0
        co  == IF And8(old, 128) # 0 THEN 16 ELSE 0
        new == (old * 2 + ci) % 256
        f   == IF new # 0 THEN 0 ELSE 128
        s1  == SetReg(s, n, new)
        s2  == SetReg(s1, "f", And8(f, 239) + co)
    IN  SetReg(s2, "m", 2)

\* GbZ80Cpu.cb_map: the handler of the sub-opcode i (RLC B implemented,
\* RLC (HL) and BIT 7,H not).
cb_map(i, s) ==
    CASE i = 0   -> _rlc_n(s, "b")
      [] i = 6   -> _raise_cb_op_unimplemented(s)
      [] i = 124 -> _raise_cb_op_unimplemented(s)

\* The sub-opcodes of cb_map the model executes.
CbHandled == {0, 6, 124}

\* GbZ80Cpu._call_cb_op: the sub-opcode is read at pc, pc + 1 is masked,
\* and the handler of cb_map is called.
_call_cb_op(s) ==
    LET pc == s.registers.pc
        i  == read8(s, pc)
        s1 == SetReg(CheckIndex(s, pc), "pc", (pc + 1) % 65536)
    IN  IF s1.raised THEN s1 ELSE cb_map(i, s1)

\* _jr_cc_n charging 3 cycles whether or not the jump is taken.
JrChargedAsTaken(s, and_val, flag_check_value) ==
    LET pc == s.registers.pc
        n  == read8(s, pc)
        i  == IF n > 127 THEN And8(-((-n - 1) + 1), 255) ELSE n
        s1 == SetReg(CheckIndex(s, pc), "pc", pc + 1)
    IN  IF And8(s.registers.f, and_val) = flag_check_value
        THEN SetReg(SetReg(s1, "pc", pc + 1 + i), "m", 3)
        ELSE SetReg(s1, "m", 3)

\* GbZ80Cpu._jr_cc_n: the displacement above 127 is passed through
\* -(~i + 1) & 255, which is i itself; the jump is taken when
\* f & and_val = flag_check_value.
_jr_cc_n(s, and_val, flag_check_value) ==
    LET pc == s.registers.pc
        n  == read8(s, pc)
        i  == IF n > 127 THEN And8(-((-n - 1) + 1), 255) ELSE n
        s1 == SetReg(CheckIndex(s, pc), "pc", pc + 1)
        s2 == SetReg(s1, "m", 2)
    IN  IF And8(s.registers.f, and_val) = flag_check_value
        THEN SetReg(SetReg(s2, "pc", pc + 1 + i), "m", 3)
        ELSE s2

\* GbZ80Cpu._djnz_n (opcode 0x10): B is decremented; while it is not 0
\* the signed displacement is added to pc.
_djnz_n(s) ==
    LET pc == s.registers.pc
        b  == (s.registers.b - 1) % 256
        s1 == SetReg(s, "b", b)
    IN  IF b # 0
        THEN LET n0 == read8(s, pc)
                 n  == IF n0 > 127 THEN n0 - 256 ELSE n0
                 s2 == SetReg(CheckIndex(s1, pc), "pc", (pc + n + 1) % 65536)
             IN  SetReg(s2, "m", 3)
        ELSE SetReg(SetReg(s1, "pc", (pc + 1) % 65536), "m", 2)

\* The flags H and C of SP + n as _add_sp_n and _ld_hl_sp_n compute them
\* (Z and N cleared).
SpFlags(sp, n) ==
    (IF (sp % 16) + (n % 16) > 15 THEN 32 ELSE 0)
        + (IF (sp % 256) + (n % 256) > 255 THEN 16 ELSE 0)

\* GbZ80Cpu._add_sp_n: the immediate is signed, the sum masked.
_add_sp_n(s) ==
    LET pc == s.registers.pc
        n0 == read8(s, pc)
        n  == IF n0 > 127 THEN n0 - 256 ELSE n0
        sp == s.registers.sp
        s1 == SetReg(CheckIndex(s, pc), "pc", pc + 1)
        s2 == SetReg(s1, "f", SpFlags(sp, n))
        s3 == SetReg(s2, "sp", (sp + n) % 65536)
    IN  SetReg(s3, "m", 4)

\* GbZ80Cpu._ld_hl_sp_n: the immediate is signed, the sum masked.
_ld_hl_sp_n(s) ==
    LET pc == s.registers.pc
        n0 == read8(s, pc)
        n  == IF n0 > 127 THEN n0 - 256 ELSE n0
        sp == s.registers.sp
        result == (sp + n) % 65536
        s1 == SetReg(CheckIndex(s, pc), "pc", pc + 1)
        s2 == SetReg(s1, "f", SpFlags(sp, n))
        s3 == SetReg(SetReg(s2, "h", result \div 256), "l", result % 256)
    IN  SetReg(s3, "m", 3)

\* GbZ80Cpu._add_hl_sp: N is cleared and H set from bit 11; the handler
\* ends there: H, L, the carry and m are left as they were.
_add_hl_sp(s) ==
    LET hl == s.registers.h * 256 + s.registers.l
        sp == s.registers.sp
        f1 == s.registers.f - 64 * Bit(s.registers.f, 6)
        f2 == IF (hl % 4096) + (sp % 4096) > 4095
              THEN f1 + 32 * (1 - Bit(f1, 5))
              ELSE f1 - 32 * Bit(f1, 5)
    IN  SetReg(s, "f", f2)

\* GbZ80Cpu._ld_nn_sp: SP is stored at the 16-bit immediate address.
_ld_nn_sp(s) ==
    LET pc == s.registers.pc
        address == read16(s, pc)
        s1 == write16(CheckIndex(CheckIndex(s, pc), pc + 1),
                      address, s.registers.sp)
        s2 == SetReg(s1, "pc", pc + 2)
    IN  SetReg(s2, "m", 4)

\* GbZ80Cpu._jp_nn
_jp_nn(s) ==
    LET pc == s.registers.pc
        s1 == SetReg(CheckIndex(CheckIndex(s, pc), pc + 1),
                     "pc", read16(s, pc))
    IN  SetReg(s1, "m", 3)

\* GbZ80Cpu._inc_r_r (called with the default m = 1)
_inc_r_r(s, r1, r2) ==
    LET low == (s.registers[r2] + 1) % 256
        s1  == SetReg(s, r2, low)
        s2  == IF low = 0
               THEN SetReg(s1, r1, (s.registers[r1] + 1) % 256)
               ELSE s1
    IN  SetReg(s2, "m", 1)

\* GbZ80Cpu._dec_r_r (called with the default m = 1)
_dec_r_r(s, r1, r2) ==
    LET low == (s.registers[r2] - 1) % 256
        s1  == SetReg(s, r2, low)
        s2  == IF low = 255
               THEN SetReg(s1, r1, (s.registers[r1] - 1) % 256)
               ELSE s1
    IN  SetReg(s2, "m", 1)

\* GbZ80Cpu._rsv: the eight byte registers are copied into rsv.
_rsv(s) ==
    IF s.raised THEN s
    ELSE [s EXCEPT !.rsv = [r \in DOMAIN s.rsv |-> s.registers[r]]]

\* GbZ80Cpu._rst_n: pc is stored below sp, then set to n.
_rst_n(s, n) ==
    LET pc == s.registers.pc
        sp == s.registers.sp - 2
        s1 == write16(SetReg(_rsv(s), "sp", sp), sp, pc)
        s2 == SetReg(s1, "pc", n)
    IN  SetReg(s2, "m", 3)

\* GbZ80Cpu._ret_f
_ret_f(s, and_val, flag_check_value) ==
    LET sp == s.registers.sp
        s1 == SetReg(s, "m", 1)
    IN  IF And8(s.registers.f, and_val) = flag_check_value
        THEN LET s2 == SetReg(CheckIndex(CheckIndex(s1, sp), sp + 1),
                              "pc", read16(s, sp))
                 s3 == SetReg(s2, "sp", sp + 2)
             IN  SetReg(s3, "m", 3)
        ELSE s1

\* GbZ80Cpu._sub_n (SUB r)
_sub_n(s, r) ==
    LET a      == s.registers.a
        val    == s.registers[r]
        result == a - val
        f      == 64 + (IF result % 256 = 0 THEN 128 ELSE 0)
                     + (IF (a % 16) < (val % 16) THEN 32 ELSE 0)
                     + (IF result < 0 THEN 16 ELSE 0)
    IN  SetReg(SetReg(SetReg(s, "f", f), "a", result % 256), "m", 1)

\* GbZ80Cpu._sub_a_n (SBC A,r): the operand is subtracted from
\* registers['a'] in place and read again for the half-carry, so that
\* with n = 'a' the second read returns the result.
_sub_a_n(s, n) ==
    LET a      == s.registers.a
        diff   == a - s.registers[n]
                    - (IF And8(s.registers.f, 16) # 0 THEN 1 ELSE 0)
        f1     == IF diff < 0 THEN 80 ELSE 64
        result == diff % 256
        again  == IF n = "a" THEN result ELSE s.registers[n]
        f2     == f1 + (IF result = 0 THEN 128 ELSE 0)
        f3     == f2 + (IF (Bit(result, 4) + Bit(again, 4) + Bit(a, 4)) % 2 = 1
                        THEN 32 ELSE 0)
    IN  SetReg(SetReg(SetReg(s, "a", result), "f", f3), "m", 1)

\* GbZ80Cpu._cp_n: CP r, and CP n when called with 'pc'.
_cp_n(s, n) ==
    LET pc     == s.registers.pc
        s1     == IF n = "pc"
                  THEN SetReg(CheckIndex(s, pc), "pc", pc + 1)
                  ELSE s
        value  == IF n = "pc" THEN read8(s, pc) ELSE s.registers[n]
        a      == s.registers.a
        result == a - value
        f      == 64 + (IF result % 256 = 0 THEN 128 ELSE 0)
                     + (IF (a % 16) < (value % 16) THEN 32 ELSE 0)
                     + (IF result < 0 THEN 16 ELSE 0)
    IN  SetReg(SetReg(s1, "f", f), "m", 2)

\* GbZ80Cpu._add_a_n (ADD A,r)
_add_a_n(s, n) ==
    LET a      == s.registers.a
        value  == s.registers[n]
        result == a + value
        f      == (IF result % 256 = 0 THEN 128 ELSE 0)
                    + (IF (a % 16) + (value % 16) > 15 THEN 32 ELSE 0)
                    + (IF result > 255 THEN 16 ELSE 0)
    IN  SetReg(SetReg(SetReg(s, "f", f), "a", result % 256), "m", 1)

\* The flags ADC leaves for A = a, the operand value and the carry.
AdcFlags(a, value, carry) ==
    (IF (a + value + carry) % 256 = 0 THEN 128 ELSE 0)
        + (IF (a % 16) + (value % 16) + carry > 15 THEN 32 ELSE 0)
        + (IF a + value + carry > 255 THEN 16 ELSE 0)

\* _adc_a_n with the half-carry of a + value, the carry left out.
AdcHalfCarryOfAdd(s, n) ==
    LET a      == s.registers.a
        value  == s.registers[n]
        carry  == IF And8(s.registers.f, 16) # 0 THEN 1 ELSE 0
        f      == (IF (a + value + carry) % 256 = 0 THEN 128 ELSE 0)
                    + (IF (a % 16) + (value % 16) > 15 THEN 32 ELSE 0)
                    + (IF a + value + carry > 255 THEN 16 ELSE 0)
    IN  SetReg(SetReg(SetReg(s, "f", f), "a", (a + value + carry) % 256),
               "m", 1)

\* GbZ80Cpu._adc_a_n (ADC A,r)
_adc_a_n(s, n) ==
    LET a      == s.registers.a
        value  == s.registers[n]
        carry  == IF And8(s.registers.f, 16) # 0 THEN 1 ELSE 0
        s1     == SetReg(s, "f", AdcFlags(a, value, carry))
    IN  SetReg(SetReg(s1, "a", (a + value + carry) % 256), "m", 1)

\* GbZ80Cpu._adc_n (ADC A,n)
_adc_n(s) ==
    LET pc     == s.registers.pc
        a      == s.registers.a
        value  == read8(s, pc)
        carry  == IF And8(s.registers.f, 16) # 0 THEN 1 ELSE 0
        s1     == SetReg(CheckIndex(s, pc), "pc", (pc + 1) % 65536)
        s2     == SetReg(s1, "f", AdcFlags(a, value, carry))
    IN  SetReg(SetReg(s2, "a", (a + value + carry) % 256), "m", 2)

\* GbZ80Cpu._adc_hl (ADC A,(HL))
_adc_hl(s) ==
    LET a      == s.registers.a
        value  == read8(s, Or8(s.registers.h * 256, s.registers.l))
        carry  == IF And8(s.registers.f, 16) # 0 THEN 1 ELSE 0
        s1     == SetReg(s, "f", AdcFlags(a, value, carry))
    IN  SetReg(SetReg(s1, "a", (a + value + carry) % 256), "m", 2)

\* GbZ80Cpu._dec_r (DEC r): F is assigned anew, the carry with it.
_dec_r(s, r) ==
    LET old_value == s.registers[r]
        new       == (old_value - 1) % 256
        f         == 64 + (IF new = 0 THEN 128 ELSE 0)
                        + (IF old_value % 16 = 0 THEN 32 ELSE 0)
    IN  SetReg(SetReg(SetReg(s, r, new), "f", f), "m", 1)

\* GbZ80Cpu._inc_r (INC r): F is assigned anew, the carry with it.
_inc_r(s, r) ==
    LET old_value == s.registers[r]
        new       == (old_value + 1) % 256
        f         == (IF new = 0 THEN 128 ELSE 0)
                        + (IF old_value % 16 = 15 THEN 32 ELSE 0)
    IN  SetReg(SetReg(SetReg(s, r, new), "f", f), "m", 1)

\* GbZ80Cpu._rlc_a (RLCA): bit 4 of F is replaced by the bit rotated out;
\* the other bits of F are kept.
_rlc_a(s) ==
    LET a  == s.registers.a
        ci == IF And8(a, 128) # 0 THEN 1 ELSE 0
        co == IF And8(a, 128) # 0 THEN 16 ELSE 0
        s1 == SetReg(s, "a", (a * 2 + ci) % 256)
        s2 == SetReg(s1, "f", And8(s.registers.f, 239) + co)
    IN  SetReg(s2, "m", 1)

\* GbZ80Cpu._rrca (RRCA)
_rrca(s) ==
    LET a     == s.registers.a
        carry == And8(a, 1)
        s1    == SetReg(s, "a", Or8(a \div 2, carry * 128))
        s2    == SetReg(s1, "f", IF carry # 0 THEN 16 ELSE 0)
    IN  SetReg(s2, "m", 1)

\* GbZ80Cpu._add_hl_n (ADD HL,BC / DE / HL): both pairs are read before
\* anything is stored; Z is kept.
_add_hl_n(s, r1, r2) ==
    LET hl     == s.registers.h * 256 + s.registers.l
        value  == s.registers[r1] * 256 + s.registers[r2]
        result == hl + value
        f1 == s.registers.f - 64 * Bit(s.registers.f, 6)
        f2 == IF (hl % 4096) + (value % 4096) > 4095
              THEN f1 + 32 * (1 - Bit(f1, 5))
              ELSE f1 - 32 * Bit(f1, 5)
        f3 == IF result > 65535
              THEN f2 + 16 * (1 - Bit(f2, 4))
              ELSE f2 - 16 * Bit(f2, 4)
        s1 == SetReg(s, "f", f3)
        s2 == SetReg(s1, "h", (result \div 256) % 256)
        s3 == SetReg(s2, "l", result % 256)
    IN  SetReg(s3, "m", 2)

\* GbZ80Cpu._ld_r1r2_nn (LD BC,nn / LD HL,nn)
_ld_r1r2_nn(s, r1, r2) ==
    LET pc == s.registers.pc
        s1 == SetReg(CheckIndex(s, pc), r2, read8(s, pc))
        s2 == SetReg(CheckIndex(s1, pc + 1), r1, read8(s, pc + 1))
        s3 == SetReg(s2, "pc", pc + 2)
    IN  SetReg(s3, "m", 3)

\* opcode_map[239] is (self._rst_n, (0x28)): the arguments are the int
\* 0x28, not a tuple, and opcode(*args) raises TypeError before _rst_n
\* runs.
opcode_239(s) == Raise(s)

\* GbZ80Cpu._rrs: the eight byte registers are copied back from rsv.
_rrs(s) ==
    IF s.raised THEN s
    ELSE [s EXCEPT !.registers =
            [r \in DOMAIN s.registers |->
                IF r \in DOMAIN s.rsv THEN s.rsv[r] ELSE s.registers[r]]]

\* GbZ80Cpu._reti
_reti(s) ==
    LET s1 == _rrs(SetReg(s, "ime", 1))
        sp == s.registers.sp
        s2 == SetReg(CheckIndex(CheckIndex(s1, sp), sp + 1),
                     "pc", read16(s, sp))
        s3 == SetReg(s2, "sp", sp + 2)
    IN  SetReg(s3, "m", 3)

\* GbZ80Cpu.cpl (CPL): of F only the zero flag is kept.
cpl(s) ==
    LET s1 == SetReg(s, "a", 255 - s.registers.a)
        s2 == SetReg(s1, "f", Or8(And8(s.registers.f, 128), 96))
    IN  SetReg(s2, "m", 1)

\* GbZ80Cpu._ccf (CCF)
_ccf(s) ==
    LET f  == s.registers.f
        f1 == IF And8(f, 16) # 0 THEN AndNot8(f, 16) ELSE Or8(f, 16)
        s1 == SetReg(s, "f", And8(f1, 144))
    IN  SetReg(s1, "m", 1)

\* GbZ80Cpu._scf (SCF): the carry is set, the rest of F is kept.
_scf(s) ==
    SetReg(SetReg(s, "f", Or8(s.registers.f, 16)), "m", 1)

\* The opcodes of opcode_map the model executes.
Handled ==
    {0, 1, 3, 4, 5, 6, 7, 8, 9, 11, 12, 13, 14, 15, 16, 20, 21, 23, 24,
     25, 28, 29, 31, 32, 33, 36, 37, 39, 40, 41, 44, 45, 47, 48, 49,
     55, 56, 57, 60, 61, 62, 63, 118, 128, 129, 130, 131, 132, 133,
     135, 136, 137, 138, 139, 140, 141, 142, 143, 144, 145, 146, 147,
     148, 149, 151, 152, 153, 154, 155, 156, 157, 159, 184, 185, 186,
     187, 188, 189, 191, 192, 193, 195, 197, 199, 200, 201, 203, 205,
     206, 207, 209, 213, 215, 217, 223, 224, 225, 229, 231, 232, 234,
     239, 241, 243, 245, 247, 248, 250, 251, 254, 255}

\* GbZ80Cpu.opcode_map: the handler and its arguments.
opcode_map(o, s) ==
    CASE o = 0   -> _nop(s)
      [] o = 1   -> _ld_r1r2_nn(s, "b", "c")
      [] o = 3   -> _inc_r_r(s, "b", "c")
      [] o = 4   -> _inc_r(s, "b")
      [] o = 5   -> _dec_r(s, "b")
      [] o = 6   -> _ld_rn(s, "b")
      [] o = 7   -> _rlc_a(s)
      [] o = 8   -> _ld_nn_sp(s)
      [] o = 9   -> _add_hl_n(s, "b", "c")
      [] o = 11  -> _dec_r_r(s, "b", "c")
      [] o = 12  -> _inc_r(s, "c")
      [] o = 13  -> _dec_r(s, "c")
      [] o = 14  -> _ld_rn(s, "c")
      [] o = 15  -> _rrca(s)
      [] o = 16  -> _djnz_n(s)
      [] o = 20  -> _inc_r(s, "d")
      [] o = 21  -> _dec_r(s, "d")
      [] o = 23  -> _raise_opcode_unimplemented(s)
      [] o = 24  -> _jr_n(s)
      [] o = 25  -> _add_hl_n(s, "d", "e")
      [] o = 28  -> _inc_r(s, "e")
      [] o = 29  -> _dec_r(s, "e")
      [] o = 31  -> _raise_opcode_unimplemented(s)
      [] o = 32  -> _jr_cc_n(s, 128, 0)
      [] o = 33  -> _ld_r1r2_nn(s, "h", "l")
      [] o = 36  -> _inc_r(s, "h")
      [] o = 37  -> _dec_r(s, "h")
      [] o = 39  -> _nop(s)
      [] o = 40  -> _jr_cc_n(s, 128, 128)
      [] o = 41  -> _add_hl_n(s, "h", "l")
      [] o = 44  -> _inc_r(s, "l")
      [] o = 45  -> _dec_r(s, "l")
      [] o = 47  -> cpl(s)
      [] o = 48  -> _jr_cc_n(s, 16, 0)
      [] o = 49  -> _ld_sp_nn(s)
      [] o = 55  -> _scf(s)
      [] o = 56  -> _jr_cc_n(s, 16, 16)
      [] o = 57  -> _add_hl_sp(s)
      [] o = 60  -> _inc_r(s, "a")
      [] o = 61  -> _dec_r(s, "a")
      [] o = 62  -> _ld_rn(s, "a")
      [] o = 63  -> _ccf(s)
      [] o = 118 -> _halt(s)
      [] o = 128 -> _add_a_n(s, "b")
      [] o = 129 -> _add_a_n(s, "c")
      [] o = 130 -> _add_a_n(s, "d")
      [] o = 131 -> _add_a_n(s, "e")
      [] o = 132 -> _add_a_n(s, "h")
      [] o = 133 -> _add_a_n(s, "l")
      [] o = 135 -> _add_a_n(s, "a")
      [] o = 136 -> _adc_a_n(s, "b")
      [] o = 137 -> _adc_a_n(s, "c")
      [] o = 138 -> _adc_a_n(s, "d")
      [] o = 139 -> _adc_a_n(s, "e")
      [] o = 140 -> _adc_a_n(s, "h")
      [] o = 141 -> _adc_a_n(s, "l")
      [] o = 142 -> _adc_hl(s)
      [] o = 143 -> _adc_a_n(s, "a")
      [] o = 144 -> _sub_n(s, "b")
      [] o = 145 -> _sub_n(s, "c")
      [] o = 146 -> _sub_n(s, "d")
      [] o = 147 -> _sub_n(s, "e")
      [] o = 148 -> _sub_n(s, "h")
      [] o = 149 -> _sub_n(s, "l")
      [] o = 151 -> _sub_n(s, "a")
      [] o = 152 -> _sub_a_n(s, "b")
      [] o = 153 -> _sub_a_n(s, "c")
      [] o = 154 -> _sub_a_n(s, "d")
      [] o = 155 -> _sub_a_n(s, "e")
      [] o = 156 -> _sub_a_n(s, "h")
      [] o = 157 -> _sub_a_n(s, "l")
      [] o = 159 -> _sub_a_n(s, "a")
      [] o = 184 -> _cp_n(s, "b")
      [] o = 185 -> _cp_n(s, "c")
      [] o = 186 -> _cp_n(s, "d")
      [] o = 187 -> _cp_n(s, "e")
      [] o = 188 -> _cp_n(s, "h")
      [] o = 189 -> _cp_n(s, "l")
      [] o = 191 -> _cp_n(s, "a")
      [] o = 192 -> _ret_f(s, 128, 0)
      [] o = 193 -> _pop_nn(s, "b", "c")
      [] o = 195 -> _jp_nn(s)
      [] o = 197 -> _push_nn(s, "b", "c")
      [] o = 199 -> _rst_n(s, 0)
      [] o = 200 -> _ret_f(s, 128, 128)
      [] o = 201 -> _ret(s)
      [] o = 203 -> _call_cb_op(s)
      [] o = 205 -> _call_nn(s)
      [] o = 206 -> _adc_n(s)
      [] o = 207 -> _rst_n(s, 8)
      [] o = 209 -> _pop_nn(s, "d", "e")
      [] o = 213 -> _push_nn(s, "d", "e")
      [] o = 215 -> _rst_n(s, 16)
      [] o = 217 -> _reti(s)
      [] o = 223 -> _rst_n(s, 24)
      [] o = 224 -> _ldh_n_a(s)
      [] o = 225 -> _pop_nn(s, "h", "l")
      [] o = 229 -> _push_nn(s, "h", "l")
      [] o = 231 -> _rst_n(s, 32)
      [] o = 232 -> _add_sp_n(s)
      [] o = 234 -> _ld_nn_a(s)
      [] o = 239 -> opcode_239(s)
      [] o = 241 -> _pop_nn(s, "a", "f")
      [] o = 243 -> _di(s)
      [] o = 245 -> _push_nn(s, "a", "f")
      [] o = 247 -> _rst_n(s, 48)
      [] o = 248 -> _ld_hl_sp_n(s)
      [] o = 250 -> _ld_a_nn(s)
      [] o = 251 -> _ei(s)
      [] o = 254 -> _cp_n(s, "pc")
      [] o = 255 -> _rst_n(s, 56)

\* The addresses the handler of opcode o reads, given the registers at
\* its entry (immediates, popped bytes, tile rows refreshed by a push).
Reads(o, regs) ==
    CASE o \in {6, 14, 24, 32, 40, 48, 56, 62, 203, 206, 224, 232, 248,
                 254} -> {regs.pc}
      [] o = 142  -> {regs.h * 256 + regs.l}
      [] o = 16   -> IF regs.b # 1 THEN {regs.pc} ELSE {}
      [] o \in {1, 8, 33, 49, 195, 234, 250} -> {regs.pc, regs.pc + 1}
      [] o = 192  -> IF And8(regs.f, 128) = 0
                     THEN {regs.sp, regs.sp + 1} ELSE {}
      [] o = 200  -> IF And8(regs.f, 128) = 128
                     THEN {regs.sp, regs.sp + 1} ELSE {}
      [] o \in {199, 207, 215, 223, 231, 247, 255} ->
             TileReads(regs.sp - 2) \cup TileReads(regs.sp - 1)
      [] o \in {197, 213, 229, 245} ->
             TileReads(regs.sp - 1) \cup TileReads(regs.sp - 2)
      [] o \in {193, 201, 209, 217, 225, 241} -> {regs.sp, regs.sp + 1}
      [] o = 205  -> {regs.pc, regs.pc + 1}
                         \cup TileReads(regs.sp - 2) \cup TileReads(regs.sp - 1)
      [] OTHER    -> {}

\* The addresses the handler of opcode o reads through its operands, once
\* these are fixed in s.memory: the tile row refreshed by a store, the
\* cell loaded.
DataReads(o, s) ==
    LET pc == s.registers.pc
    IN  IF ~(ValidIndex(pc) /\ ValidIndex(pc + 1)) THEN {}
        ELSE CASE o = 8   -> TileReads(read16(s, pc))
                                 \cup TileReads(read16(s, pc) + 1)
               [] o = 234 -> TileReads(read16(s, pc))
               [] o = 250 -> {read16(s, pc)}
               [] OTHER   -> {}

-----------------------------------------------------------------------------
(* cpu.py: interrupts.                                                     *)

\* _execute_interrupt without the clearing of the served bit in IF.
ExecuteInterruptKeepFlag(s, bit, address) ==
    LET s1 == SetReg(s, "ime", 0)
        sp == s1.registers.sp - 2
        s3 == write16(SetReg(s1, "sp", sp), sp, s1.registers.pc)
        s4 == SetReg(s3, "pc", address)
    IN  SetReg(s4, "m", 5)

\* GbZ80Cpu._execute_interrupt
_execute_interrupt(s, bit, address) ==
    LET s1 == SetReg(s, "ime", 0)
        interrupt_flags == AndNot8(read8(s1, IO_IF), 2 ^ bit)
        s2 == write_byte(s1, IO_IF, interrupt_flags)
        sp == s2.registers.sp - 2
        s3 == write16(SetReg(s2, "sp", sp), sp, s2.registers.pc)
        s4 == SetReg(s3, "pc", address)
    IN  SetReg(s4, "m", 5)

\* The highest of bits 0..4 set in triggered (5 when none is).
HighestBit(triggered) ==
    IF \E b \in 0..4 : Bit(triggered, b) = 1
    THEN CHOOSE b \in 0..4 :
             /\ Bit(triggered, b) = 1
             /\ \A c \in 0..4 : Bit(triggered, c) = 1 => c <= b
    ELSE 5

\* The bit handle_interrupts serves: the lowest of bits 0..4 set in
\* triggered (5 when none is).
LowestBit(triggered) ==
    IF \E b \in 0..4 : Bit(triggered, b) = 1
    THEN CHOOSE b \in 0..4 :
             /\ Bit(triggered, b) = 1
             /\ \A c \in 0..4 : Bit(triggered, c) = 1 => b <= c
    ELSE 5

\* handle_interrupts without the test of ime.
HandleInterruptsIgnoringIme(s) ==
    LET triggered == And8(read8(s, IO_IE), read8(s, IO_IF))
        bit == LowestBit(triggered)
    IN  IF triggered # 0 /\ bit < 5
        THEN _execute_interrupt(s, bit, 64 + 8 * bit)
        ELSE s

\* GbZ80Cpu.handle_interrupts: the vectors are 0x40, 0x48, .. 0x60.
handle_interrupts(s) ==
    IF s.registers.ime = 0 THEN s
    ELSE LET interrupt_enable == read8(s, IO_IE)
             interrupt_flags  == read8(s, IO_IF)
             triggered == And8(interrupt_enable, interrupt_flags)
             bit == LowestBit(triggered)
         IN  IF triggered # 0 /\ bit < 5
             THEN _execute_interrupt(s, bit, 64 + 8 * bit)
             ELSE s

-----------------------------------------------------------------------------
(* The machine.                                                            *)

\* The registers GbZ80Cpu.__init__ sets; load_rom_image sets pc = 0x0100.
InitRegisters ==
    [a |-> 1, f |-> 176, b |-> 0, c |-> 19, d |-> 0, e |-> 216,
     h |-> 1, l |-> 77, ime |-> 1, pc |-> 256, sp |-> 65534, m |-> 0]

\* GbZ80Cpu.rsv
InitRsv ==
    [a |-> 0, b |-> 0, c |-> 0, d |-> 0, e |-> 0, f |-> 0, h |-> 0, l |-> 0]

\* GbGpu.__init__: H-blank, mode clock 0, no V-blank yet, an empty tile
\* cache (every pixel 0) and nothing drawn.
InitGpu ==
    [linemode |-> 0, mode_clock |-> 0, vblank_counter |-> 0,
     tile_set |-> [k \in {} |-> 0], screen |-> {}]

\* The state after construction and load_rom_image: reset_memory has
\* zeroed the RAM, the cartridge is not read yet.
Init ==
    /\ registers = InitRegisters
    /\ rsv = InitRsv
    /\ clock = 0
    /\ memory = [x \in {} |-> 0]
    /\ gpu = InitGpu
    /\ my_counter = 0
    /\ op = 0
    /\ phase = "fetch"

\* The machine as the record the handlers work on, with memory mem.
Machine(mem) ==
    [registers |-> registers, rsv |-> rsv, clock |-> clock,
     memory |-> mem, gpu |-> gpu, raised |-> FALSE]

\* memory with the cartridge bytes f fixed.
Fix(mem, f) ==
    [x \in DOMAIN mem \cup DOMAIN f |->
        IF x \in DOMAIN mem THEN mem[x] ELSE f[x]]

\* The bytes the fetch at pc can return: the stored one, any opcode of
\* Ops from a cartridge cell not read before, 0 from untouched RAM.
Fetch(mem, pc, Ops) ==
    LET i == Index(pc)
    IN  IF i \in DOMAIN mem THEN {mem[i]}
        ELSE IF i < 32768 THEN Ops
        ELSE {0}

\* The machine becomes the record s.
Becomes(s) ==
    /\ registers' = s.registers
    /\ rsv' = s.rsv
    /\ clock' = s.clock
    /\ memory' = s.memory
    /\ gpu' = s.gpu

\* The end of a step: _inc_clock, which an exception in the handler
\* skips.
Charge(s) == IF s.raised THEN s ELSE _inc_clock(s)

\* The machine becomes s; an exception ends the run, otherwise the call
\* goes on at next.
Lands(s, next) ==
    /\ Becomes(s)
    /\ phase' = IF s.raised THEN "raised" ELSE next

\* GbZ80Cpu.execute_next_operation up to the call of handle_interrupts:
\* count, fetch, the stuck-at-NOP exit, pc + 1 masked, the handler, then
\* _inc_clock.  An exception ends the run: the clock and the GPU are not
\* advanced and no interrupt is served.  Execute is enabled for the
\* opcodes of Handled and the sub-opcodes of CbHandled.  Ops, Imm[o] and
\* Data are the
\* opcodes, the operand bytes and the data bytes the cartridge may hold;
\* at most Max instructions are run.
Execute(Ops, Imm, Data, Max) ==
    /\ phase = "fetch"
    /\ my_counter < Max
    /\ my_counter' = my_counter + 1
    /\ IF ~ValidIndex(registers.pc)
       THEN /\ phase' = "raised"
            /\ UNCHANGED <<registers, rsv, clock, memory, gpu, op>>
       ELSE \E o \in Fetch(memory, registers.pc, Ops) :
              LET pc   == registers.pc
                  mem1 == Fix(memory, [x \in Unknown(memory, {pc}) |-> o])
              IN  /\ op' = o
                  /\ IF pc > 24064 /\ o = 0
                     THEN /\ phase' = "exited"
                          /\ memory' = mem1
                          /\ UNCHANGED <<registers, rsv, clock, gpu>>
                     ELSE /\ o \in Handled
                          /\ LET regs1 == [registers EXCEPT
                                              !.pc = (pc + 1) % 65536]
                             IN  \E f \in [Unknown(mem1, Reads(o, regs1))
                                              -> Imm[o]] :
                                   LET sf == [Machine(Fix(mem1, f)) EXCEPT
                                                  !.registers = regs1]
                                   IN  \E g \in [Unknown(sf.memory,
                                                    DataReads(o, sf)) -> Data] :
                                     /\ o = 203 =>
                                          read8(sf, regs1.pc) \in CbHandled
                                     /\ Lands(Charge(opcode_map(o,
                                            [sf EXCEPT !.memory =
                                                Fix(sf.memory, g)])),
                                          "interrupts")

\* The tile rows the push of an interrupt dispatch refreshes.
IrqReads ==
    IF /\ registers.ime # 0
       /\ LowestBit(And8(read_byte(memory, IO_IE),
                         read_byte(memory, IO_IF))) < 5
    THEN TileReads(registers.sp - 2) \cup TileReads(registers.sp - 1)
    ELSE {}

\* The call of handle_interrupts that ends execute_next_operation.
HandleInterrupts(Data) ==
    /\ phase = "interrupts"
    /\ \E f \in [Unknown(memory, IrqReads) -> Data] :
         Lands(handle_interrupts(Machine(Fix(memory, f))), "fetch")
    /\ UNCHANGED <<my_counter, op>>

-----------------------------------------------------------------------------
(* Spec: loads, jumps, the stack and the interrupt instructions, short     *)
(* programs from power-on.                                                 *)

\* NOP, JR, LD SP,nn, LD A,n, HALT, PUSH BC, LDH (n),A, POP AF, DI, EI.
SpecOps == {0, 24, 49, 62, 118, 197, 224, 241, 243, 251}

\* The operand and data bytes of the cartridge: JR -128; SP at the
\* interrupt flags or in ROM; A two interrupts or line 154; LDH to IF,
\* LY or IE.
SpecImm ==
    [o \in 0..255 |->
        CASE o = 24  -> {128}
          [] o = 49  -> {16, 255}
          [] o = 62  -> {6, 154}
          [] o = 224 -> {15, 68, 255}
          [] OTHER   -> {0, 255}]

\* The tile bytes of the cartridge.
RomData == {0, 255}

Step == Execute(SpecOps, SpecImm, RomData, MaxInstr)

Irq == HandleInterrupts(RomData)

Next == Step \/ Irq

Spec == Init /\ [][Next]_vars

-----------------------------------------------------------------------------
(* SpecIrq: the interrupt instructions, one instruction deeper.            *)

\* NOP, LD A,n, HALT, LDH (n),A, DI and EI.
IrqOps == {0, 62, 118, 224, 243, 251}

\* A two interrupts; LDH to IF or IE.
IrqImm ==
    [o \in 0..255 |->
        CASE o = 62  -> {6}
          [] o = 224 -> {15, 255}
          [] OTHER   -> {0}]

StepIrq == Execute(IrqOps, IrqImm, RomData, MaxInstrIrq)

NextIrq == StepIrq \/ Irq

SpecIrq == Init /\ [][NextIrq]_vars

-----------------------------------------------------------------------------
(* SpecFrame: SetupInstr instructions of set-up, then JR -2 for frames.    *)

\* The opcodes of the looping cartridge: LDH (n),A and LD SP,nn only
\* during the set-up, JR always.
FrameOps == IF my_counter < SetupInstr THEN {24, 49, 224} ELSE {24}

\* JR -2; SP at the interrupt flags; LDH to IE.
FrameImm ==
    [o \in 0..255 |->
        CASE o = 24  -> {254}
          [] o = 49  -> {16, 255}
          [] o = 224 -> {255}
          [] OTHER   -> {0}]

StepFrame == Execute(FrameOps, FrameImm, RomData, MaxInstrFrame)

NextFrame == StepFrame \/ Irq

SpecFrame == Init /\ [][NextFrame]_vars

-----------------------------------------------------------------------------
(* SpecBus: stores of A to and loads of A from 16-bit addresses.           *)

\* LD A,n, LD (nn),A and LD A,(nn).
BusOps == {62, 234, 250}

\* A all ones; the bytes of nn: ROM (0x00), tile data (0x80), work RAM
\* (0xC0) and its echo (0xE0), as the high or the low byte.
BusImm ==
    [o \in 0..255 |->
        CASE o = 62 -> {255}
          [] OTHER  -> {0, 128, 192, 224}]

StepBus == Execute(BusOps, BusImm, RomData, MaxInstrBus)

NextBus == StepBus \/ Irq

SpecBus == Init /\ [][NextBus]_vars

-----------------------------------------------------------------------------
(* SpecStack: PUSH and POP of every register pair, anywhere in memory.     *)

\* LD SP,nn; POP and PUSH of BC, DE, HL and AF.
StackOps == {49, 193, 197, 209, 213, 225, 229, 241, 245}

\* The bytes of SP: 0x0000, 0x0001, 0xFFFF, the program's own bytes
\* (0x0100, 0x0101), the I/O page (0xFF00, 0xFF01); a popped cartridge
\* byte is 0xFF.
StackImm ==
    [o \in 0..255 |->
        CASE o = 49 -> {0, 1, 255}
          [] OTHER  -> {255}]

StepStack == Execute(StackOps, StackImm, RomData, MaxInstrStack)

NextStack == StepStack \/ Irq

SpecStack == Init /\ [][NextStack]_vars

-----------------------------------------------------------------------------
(* SpecCall: cartridges starting with CALL nn, or LD SP,nn; CALL nn.       *)

\* LD SP,nn, RET and CALL nn.
CallOps == {49, 201, 205}

\* The bytes of SP (the I/O page, the top of memory, the program's own
\* bytes 0x0101 and 0x0106) and of the call target (0x1234, 0x3412, ..).
CallImm ==
    [o \in 0..255 |->
        CASE o = 49  -> {1, 6, 255}
          [] o = 205 -> {18, 52}
          [] OTHER   -> {0, 255}]

\* The cartridge bytes at 0x0100 the run starts with.
CallPrograms ==
    {[x \in 256..258 |-> <<205, l, h>>[x - 255]] :
        l \in CallImm[205], h \in CallImm[205]}
    \cup
    {[x \in 256..261 |-> <<49, p, q, 205, l, h>>[x - 255]] :
        p \in CallImm[49], q \in CallImm[49],
        l \in CallImm[205], h \in CallImm[205]}

\* Init with the first bytes of the cartridge read.
InitCall ==
    /\ registers = InitRegisters
    /\ rsv = InitRsv
    /\ clock = 0
    /\ memory \in CallPrograms
    /\ gpu = InitGpu
    /\ my_counter = 0
    /\ op = 0
    /\ phase = "fetch"

StepCall == Execute(CallOps, CallImm, RomData, MaxInstrCall)

NextCall == StepCall \/ Irq

SpecCall == InitCall /\ [][NextCall]_vars

-----------------------------------------------------------------------------
(* SpecMisc: relative jumps, SP arithmetic, the CB prefix, RLA.            *)

\* LD B,n, opcode 0x10, RLA, JR e, JR NZ,e, JR Z,e, ADD HL,SP, the CB
\* prefix, ADD SP,e and LD HL,SP+e.
MiscOps == {6, 16, 23, 24, 32, 40, 57, 203, 232, 248}

\* The sub-opcodes after the CB prefix: RLC B and RLC (HL); the other
\* operands: 1, 5 and -2.
MiscImm ==
    [o \in 0..255 |->
        CASE o = 203 -> {0, 6}
          [] OTHER   -> {1, 5, 254}]

StepMisc == Execute(MiscOps, MiscImm, RomData, MaxInstrMisc)

NextMisc == StepMisc \/ Irq

SpecMisc == Init /\ [][NextMisc]_vars

-----------------------------------------------------------------------------
(* SpecJr: the conditional relative jumps under every value of Z and C.    *)

\* JR NZ,e, JR Z,e, JR NC,e, JR C,e, and POP AF and ADD SP,e to change
\* the flags.
JrOps == {32, 40, 48, 56, 232, 241}

\* The displacements 5, 127 and -2.
JrImm == [o \in 0..255 |-> {5, 127, 254}]

StepJr == Execute(JrOps, JrImm, RomData, MaxInstrJr)

NextJr == StepJr \/ Irq

SpecJr == Init /\ [][NextJr]_vars

-----------------------------------------------------------------------------
(* SpecCycles: jumps, calls, returns, restarts and 16-bit counting.        *)

\* INC BC, LD (nn),SP, DEC BC, CP B, RET NZ, JP nn, PUSH BC, RST 00,
\* RET Z, RET and CALL nn.
CyclesOps == {3, 8, 11, 184, 192, 195, 197, 199, 200, 201, 205}

\* The operand bytes 0x00 and 0xC0: the addresses 0x0000, 0x00C0, 0xC000
\* and 0xC0C0.
CyclesImm == [o \in 0..255 |-> {0, 192}]

StepCycles == Execute(CyclesOps, CyclesImm, RomData, MaxInstrCycles)

NextCycles == StepCycles \/ Irq

SpecCycles == Init /\ [][NextCycles]_vars

-----------------------------------------------------------------------------
(* SpecSub: SUB, SBC and CP on the registers loaded by LD r,n.             *)

\* The opcodes of SUB r, SBC A,r and CP r for r = B, C, D, E, H, L, A.
SubtractOps ==
    {144, 145, 146, 147, 148, 149, 151} \cup
    {152, 153, 154, 155, 156, 157, 159} \cup
    {184, 185, 186, 187, 188, 189, 191}

\* LD B,n and LD A,n, and the subtractions.
SubOps == {6, 62} \cup SubtractOps

\* The immediates 0x00, 0x10 and 0xFF.
SubImm == [o \in 0..255 |-> {0, 16, 255}]

StepSub == Execute(SubOps, SubImm, RomData, MaxInstrSub)

NextSub == StepSub \/ Irq

SpecSub == Init /\ [][NextSub]_vars

-----------------------------------------------------------------------------
(* SpecAdd: ADD and ADC on the registers loaded by LD r,n.                 *)

\* The opcodes of ADD A,r and ADC A,r for r = B, C, D, E, H, L, A.
AddOps == {128, 129, 130, 131, 132, 133, 135}

AdcOps == {136, 137, 138, 139, 140, 141, 143}

\* LD B,n and LD A,n; ADD and ADC of B, C, E and A; ADC A,(HL) and
\* ADC A,n.
SumOps == {6, 62, 128, 129, 131, 135, 136, 137, 139, 143, 142, 206}

\* The immediates 0x01, 0x0F and 0xFF.
SumImm == [o \in 0..255 |-> {1, 15, 255}]

StepAdd == Execute(SumOps, SumImm, RomData, MaxInstrAdd)

NextAdd == StepAdd \/ Irq

SpecAdd == Init /\ [][NextAdd]_vars

-----------------------------------------------------------------------------
(* SpecInc: INC r and DEC r.                                               *)

\* The opcodes of INC r and of DEC r for r = B, C, D, E, H, L, A.
IncOps == {4, 12, 20, 28, 36, 44, 60}

DecOps == {5, 13, 21, 29, 37, 45, 61}

\* LD B,n, ADD A,B (to clear the carry) and the increments and decrements.
IncDecOps == {6, 128} \cup IncOps \cup DecOps

\* The immediates 0x00, 0x0F, 0x10 and 0xFF.
IncDecImm == [o \in 0..255 |-> {0, 15, 16, 255}]

StepInc == Execute(IncDecOps, IncDecImm, RomData, MaxInstrInc)

NextInc == StepInc \/ Irq

SpecInc == Init /\ [][NextInc]_vars

-----------------------------------------------------------------------------
(* SpecRot: the rotates of the accumulator.                                *)

\* RLCA, RRCA, RLA, RRA, LD A,n, and ADD A,B and SUB B to change the
\* flags.
RotOps == {7, 15, 23, 31, 62, 128, 144}

\* The immediates 0x00, 0x01, 0x80 and 0xFF.
RotImm == [o \in 0..255 |-> {0, 1, 128, 255}]

StepRot == Execute(RotOps, RotImm, RomData, MaxInstrRot)

NextRot == StepRot \/ Irq

SpecRot == Init /\ [][NextRot]_vars

-----------------------------------------------------------------------------
(* SpecHl: the 16-bit additions to HL.                                     *)

\* LD BC,nn, LD HL,nn, ADD HL,BC, ADD HL,DE, ADD HL,HL, ADD HL,SP, and
\* ADD A,B to change the flags.
HlOps == {1, 9, 25, 33, 41, 57, 128}

\* The operand bytes 0x00, 0x0F and 0xFF.
HlImm == [o \in 0..255 |-> {0, 15, 255}]

StepHl == Execute(HlOps, HlImm, RomData, MaxInstrHl)

NextHl == StepHl \/ Irq

SpecHl == Init /\ [][NextHl]_vars

-----------------------------------------------------------------------------
(* SpecTimer: the timer registers set up, then instructions of 1, 2, 3 and *)
(* 4 machine cycles.                                                       *)

\* NOP, LD A,n, LDH (n),A and LD (nn),A.
TimerOps == {0, 62, 224, 234}

\* A = 0x05 (timer on, one tick in 4 machine cycles) or 0xFF; LDH to
\* TMA and TAC; LD (nn),A to ROM or work RAM.
TimerImm ==
    [o \in 0..255 |->
        CASE o = 62  -> {5, 255}
          [] o = 224 -> {6, 7}
          [] OTHER   -> {0, 192}]

StepTimer == Execute(TimerOps, TimerImm, RomData, MaxInstrTimer)

NextTimer == StepTimer \/ Irq

SpecTimer == Init /\ [][NextTimer]_vars

-----------------------------------------------------------------------------
(* SpecLoad: from the constructed machine, load_rom_image of a 32 KiB      *)
(* image, then the programs of Spec.                                       *)

\* The cartridge types (byte 0x0147) of the images loaded: ROM only, MBC1
\* and 0xFF.
CartTypes == {0, 1, 255}

\* The header bytes load_rom_image reads back: the title 0x0134..0x0142,
\* the type 0x0147, the language 0x014A and the manufacturer 0x014B.
HeaderCells == (308..322) \cup {327, 330, 331}

\* GbMemory.initialize_memory: the non-zero power-on values of the I/O
\* page.
InitialValues ==
    LET v == [x \in 65280..65535 |->
                CASE x = 65296 -> 128 [] x = 65297 -> 191 [] x = 65298 -> 243
                  [] x = 65300 -> 191 [] x = 65302 -> 63  [] x = 65305 -> 191
                  [] x = 65306 -> 127 [] x = 65307 -> 255 [] x = 65308 -> 159
                  [] x = 65310 -> 191 [] x = 65312 -> 255 [] x = 65315 -> 191
                  [] x = 65316 -> 119 [] x = 65317 -> 243 [] x = 65318 -> 241
                  [] x = 65344 -> 145 [] x = 65351 -> 252 [] x = 65352 -> 255
                  [] x = 65353 -> 255 [] OTHER -> 0]
    IN  [x \in {y \in DOMAIN v : v[y] # 0} |-> v[x]]

\* The machine after the constructors of main, before load_rom_image.
InitConstructed ==
    /\ registers = InitRegisters
    /\ rsv = InitRsv
    /\ clock = 0
    /\ memory = InitialValues
    /\ gpu = InitGpu
    /\ my_counter = 0
    /\ op = 0
    /\ phase = "constructed"

\* GbSystemInterface.load_rom_image: reset_memory, the image copied into
\* memory, pc = 0x0100, the header read back and printed.  No value of
\* the type byte is refused.  The header bytes other than the type are
\* all d.
load_rom_image ==
    /\ phase = "constructed"
    /\ \E t \in CartTypes, d \in RomData :
         memory' = [x \in HeaderCells |-> IF x = 327 THEN t ELSE d]
    /\ registers' = [registers EXCEPT !.pc = 256]
    /\ phase' = "fetch"
    /\ UNCHANGED <<rsv, clock, gpu, my_counter, op>>

NextLoad == load_rom_image \/ Step \/ Irq

SpecLoad == InitConstructed /\ [][NextLoad]_vars

-----------------------------------------------------------------------------
(* SpecLcd: SetupInstr instructions that may store A to LCDC or LY, then   *)
(* JR -4 for two frames.  execute_next_operation ends with the call of     *)
(* handle_interrupts: a step that has run its instruction goes on to it.   *)

\* The opcodes of the cartridge: LD A,n and LDH (n),A only during the
\* set-up, JR always.
LcdOps == IF my_counter < SetupInstr THEN {24, 62, 224} ELSE {24}

\* JR -4, back over the instruction before it; A = 0x91 (display and
\* background on); LDH to LCDC or LY.
LcdImm ==
    [o \in 0..255 |->
        CASE o = 24  -> {252}
          [] o = 62  -> {145}
          [] o = 224 -> {64, 68}
          [] OTHER   -> {0}]

StepLcd == Execute(LcdOps, LcdImm, RomData, MaxInstrLcd)

NextLcd == StepLcd \/ Irq

SpecLcd == Init /\ [][NextLcd]_vars /\ WF_vars(Irq)

-----------------------------------------------------------------------------
(* SpecRst: the restarts, RETI, and the stores that request an interrupt.  *)

\* The eight RST n.
RstOps == {199, 207, 215, 223, 231, 239, 247, 255}

\* RST n, RETI and LDH (n),A.
RestartOps == RstOps \cup {217, 224}

\* LDH to IF or IE; the cartridge bytes a RETI pops: 0x00 or 0x40.
RstImm ==
    [o \in 0..255 |->
        CASE o = 224 -> {15, 255}
          [] OTHER   -> {0, 64}]

StepRst == Execute(RestartOps, RstImm, RomData, MaxInstrRst)

NextRst == StepRst \/ Irq

SpecRst == Init /\ [][NextRst]_vars

-----------------------------------------------------------------------------
(* SpecFlag: DAA, CPL, SCF and CCF after loads, additions and              *)
(* subtractions.                                                           *)

\* DAA, CPL, SCF, CCF, and LD A,n, ADD A,A and SUB B to change A and the
\* flags.
FlagOps == {39, 47, 55, 63, 62, 135, 144}

\* A = 0x00, 0x09 or 0x99.
FlagImm == [o \in 0..255 |-> {0, 9, 153}]

StepFlag == Execute(FlagOps, FlagImm, RomData, MaxInstrFlag)

NextFlag == StepFlag \/ Irq

SpecFlag == Init /\ [][NextFlag]_vars

-----------------------------------------------------------------------------
(* SpecGpu: GbGpu.step alone, called with any number of cycles from 0 to   *)
(* MaxStep, from power-on until MaxFrames V-blanks have been entered.      *)

StepSizes == 0..MaxStep

\* One call of GbGpu.step(k).
GpuStep ==
    /\ phase = "fetch"
    /\ gpu.vblank_counter < MaxFrames
    /\ \E k \in StepSizes : Becomes(step(Machine(memory), k))
    /\ UNCHANGED <<my_counter, op, phase>>

SpecGpu == Init /\ [][GpuStep]_vars

-----------------------------------------------------------------------------
(* State functions the properties use.                                     *)

LY  == read_byte(memory, IO_LY)
IE  == read_byte(memory, IO_IE)
IF_ == read_byte(memory, IO_IF)

\* IE & IF & 0x1F: the interrupts both enabled and requested.
Triggered == And8(And8(IE, IF_), 31)

\* The bit b is the lowest-numbered bit of Triggered.
IsLowestTriggered(b) ==
    /\ Bit(Triggered, b) = 1
    /\ \A c \in 0..4 : Bit(Triggered, c) = 1 => b <= c

\* The low and the high byte of pc as the dispatch stores them.
PcLow  == registers.pc % 256
PcHigh == (registers.pc \div 256) % 256

-----------------------------------------------------------------------------
(* C1                                                                      *)

\* C1: at every instruction boundary, whatever the opcodes executed from
\* power-on, the low four bits of register F are 0 (POP AF included).
C1_FLowNibbleZero == phase = "fetch" => registers.f % 16 = 0

-----------------------------------------------------------------------------
(* C2                                                                      *)

\* C2: after every executed instruction PC and SP are in 0..65535.
C2_PcSpWithin16Bits ==
    phase # "raised" =>
        /\ registers.pc \in 0..65535
        /\ registers.sp \in 0..65535

-----------------------------------------------------------------------------
(* C3                                                                      *)

\* C3: at every instruction boundary LY is in 0..153 and the mode is
\* V-BLANK (1) exactly when LY is in 144..153; the mode only changes
\* OAM(2) -> DRAW(3) -> H-BLANK(0) -> OAM(2) or V-BLANK(1) -> OAM(2), and
\* LY only changes to its successor in 0, 1, .., 153, 0.
C3_LyAndModeCoherent ==
    [][/\ phase' = "fetch" =>
            /\ LY' \in 0..153
            /\ (gpu'.linemode = 1 <=> LY' \in 144..153)
       /\ gpu'.linemode # gpu.linemode =>
            <<gpu.linemode, gpu'.linemode>> \in
                {<<2, 3>>, <<3, 0>>, <<0, 2>>, <<0, 1>>, <<1, 2>>}
       /\ LY' # LY => LY' = (LY + 1) % 154]_vars

-----------------------------------------------------------------------------
(* C4                                                                      *)

\* C4: in every LY cycle the PPU requests V-blank (sets IF bit 0) exactly
\* once, when LY goes from 143 to 144: LY runs through 0, 1, .., 153, 0,
\* the PPU raises the request in the step that takes LY from 143 to 144,
\* and in no other step.
C4_VBlankOncePerLyCycle ==
    [][/\ LY' # LY => LY' = (LY + 1) % 154
       /\ (LY = 143 /\ LY' = 144) =>
            /\ gpu'.vblank_counter = gpu.vblank_counter + 1
            /\ Bit(IF_', 0) = 1
       /\ gpu'.vblank_counter # gpu.vblank_counter =>
            (LY = 143 /\ LY' = 144)]_vars

-----------------------------------------------------------------------------
(* C5                                                                      *)

\* The m-cycle, counted from power-on (H-BLANK of line 0), before which
\* line ly cannot enter the mode, if H-BLANK lasts 51, OAM-scan 20 and
\* DRAW 43 m-cycles and a line 114.
EarliestMCycle(ly, mode) ==
    51 + 114 * (ly - 1)
       + (CASE mode = 3 -> 20 [] mode = 0 -> 63 [] OTHER -> 0)

\* C5: measured in the m-cycles charged to the executed instructions,
\* H-BLANK lasts 51, OAM-scan 20, DRAW 43 and a line 114 m-cycles: up to
\* the first V-blank entry, line LY >= 1 is not in its mode before the
\* m-cycles these durations add up to have been charged.
C5_ModeDurationsInMCycles ==
    (/\ phase = "fetch"
     /\ LY >= 1
     /\ \/ gpu.vblank_counter = 0
        \/ gpu.vblank_counter = 1 /\ gpu.linemode = 1)
    => clock >= EarliestMCycle(LY, gpu.linemode)

-----------------------------------------------------------------------------
(* C6                                                                      *)

-----------------------------------------------------------------------------
(* C7                                                                      *)

\* C7: when IME is 0 at the end of an instruction, handle_interrupts
\* takes no vector: PC, SP and the whole memory (the stack, IF) are as
\* they were, so every bit of IE & IF is still set in IF.
C7_NoDispatchWithoutIme ==
    [][(phase = "interrupts" /\ registers.ime = 0) =>
        /\ phase' = "fetch"
        /\ registers' = registers
        /\ memory' = memory]_vars

\* An LDH (n),A has completed with IME 0 and an enabled interrupt
\* requested, and the instruction's dispatch check has run.
C7_Witness ==
    /\ phase = "fetch"
    /\ op = 224
    /\ registers.m = 3
    /\ registers.ime = 0
    /\ Triggered # 0

-----------------------------------------------------------------------------
(* C8                                                                      *)

\* C8: no interrupt is dispatched at the end of the step that executes
\* EI (opcode 0xFB), even with an enabled interrupt requested: PC, SP and
\* the memory are as EI left them.
C8_NoDispatchInEiStep ==
    [][(phase = "interrupts" /\ op = 251) =>
        /\ registers'.pc = registers.pc
        /\ registers'.sp = registers.sp
        /\ memory' = memory]_vars

-----------------------------------------------------------------------------
(* C9                                                                      *)

\* C9: after HALT (opcode 0x76) has executed and no interrupt was served,
\* no instruction is fetched while IE & IF & 0x1F = 0.
C9_NoFetchWhileHalted ==
    [][(/\ phase = "fetch"
        /\ op = 118
        /\ registers.m = 1
        /\ Triggered = 0) =>
        my_counter' = my_counter]_vars

-----------------------------------------------------------------------------
(* C10                                                                     *)

\* The PPU step of the instruction that just ran entered V-BLANK (LY
\* became 144, IF bit 0 was set) and its dispatch check is due.
VBlankJustEntered ==
    /\ phase = "interrupts"
    /\ gpu.linemode = 1
    /\ gpu.mode_clock = 0
    /\ LY = 144
    /\ Bit(IF_, 0) = 1

-----------------------------------------------------------------------------
(* C11                                                                     *)

\* C11: the dispatch of an interrupt is charged 5 m-cycles: in the
\* handle_interrupts that serves an interrupt the CPU's accumulated clock
\* grows by 5 and the PPU's mode clock advances (or the PPU changes mode),
\* on top of the cycles of the instruction that just ran.
C11_DispatchCharged5MCycles ==
    [][(/\ phase = "interrupts"
        /\ registers.ime # 0
        /\ Triggered # 0
        /\ phase' = "fetch") =>
        /\ clock' = clock + 5
        /\ \/ gpu'.mode_clock # gpu.mode_clock
           \/ gpu'.linemode # gpu.linemode]_vars

-----------------------------------------------------------------------------
(* C12                                                                     *)

\* The first address of the tile row that holds the tile-data address a
\* (a & 0xFFFE), and the row's place tile_set[tile][row] in the cache.
RowAddress(a) == a - (a % 2)
RowKey(a) == <<(a - 32768) \div 16, (a \div 2) % 8>>

\* tile_set[tile][row] for the key k (rows never set hold zeros).
CachedRow(k) ==
    IF k \in DOMAIN gpu.tile_set THEN gpu.tile_set[k] ELSE [x \in 0..7 |-> 0]

\* The two-bit interleaving of the VRAM bytes of the row at a.
VramRow(a) ==
    [x \in 0..7 |-> Bit(read_byte(memory, RowAddress(a)), 7 - x)
                     + 2 * Bit(read_byte(memory, RowAddress(a) + 1), 7 - x)]

\* The tile-data addresses written so far, and those of the rows cached.
TileCells ==
    {a \in DOMAIN memory : a >= 32768 /\ a <= 38911}
        \cup {32768 + 16 * k[1] + 2 * k[2] : k \in DOMAIN gpu.tile_set}

\* C12: after any bus write to an address in 0x8000..0x97FF the cached
\* row tile_set[tile][row] of that address is, for x in 0..7, bit 7-x of
\* the VRAM byte at addr & 0xFFFE plus twice bit 7-x of the next byte; so
\* (the cache starting as zeros over zeroed VRAM) every cached row agrees
\* with the VRAM bytes of its row after every operation.
C12_TileCacheMatchesVram ==
    \A a \in TileCells : CachedRow(RowKey(a)) = VramRow(a)

-----------------------------------------------------------------------------
(* C13                                                                     *)

\* C13: echo RAM: a byte written at a in 0xC000..0xDDFF is read back at
\* a + 0x2000, and a byte written at the echo address a + 0x2000 is read
\* back at a; so (all RAM starting as zeros) the two cells hold the same
\* byte after every operation.
C13_EchoRamMirrorsWorkRam ==
    \A a \in DOMAIN memory :
        /\ (a >= 49152 /\ a <= 56831) =>
               read_byte(memory, a + 8192) = read_byte(memory, a)
        /\ (a >= 57344 /\ a <= 65023) =>
               read_byte(memory, a - 8192) = read_byte(memory, a)

-----------------------------------------------------------------------------
(* C14                                                                     *)

\* The opcodes of PUSH rr; POP rr is the opcode 4 below.  The registers
\* of the pair, high then low.
PushOps == {197, 213, 229, 245}
PairOf(o) ==
    CASE o = 197 -> <<"b", "c">>
      [] o = 213 -> <<"d", "e">>
      [] o = 229 -> <<"h", "l">>
      [] o = 245 -> <<"a", "f">>

\* A PUSH rr was the last instruction and no interrupt was served after it.
JustPushed ==
    /\ phase = "fetch"
    /\ op \in PushOps
    /\ registers.m = 3

-----------------------------------------------------------------------------
(* C15                                                                     *)

\* A CALL nn was the last instruction and no interrupt was served after
\* it (a dispatch clears IME).
JustCalled ==
    /\ phase = "fetch"
    /\ op = 205
    /\ registers.m = 5
    /\ registers.ime # 0

\* C15: for any PC, SP and target nn, CALL nn (its operand the cartridge
\* bytes at PC+1 and PC+2) sets PC = nn, lowers SP by 2 and stores PC + 3,
\* the address of the next instruction, low byte first at the new SP; a
\* RET executed next sets PC to that stored address and SP back to its
\* value before the CALL.
C15_CallRetRoundTrip ==
    [][/\ (/\ phase = "fetch"
           /\ op' = 205
           /\ my_counter' # my_counter
           /\ {Index(registers.pc + 1), Index(registers.pc + 2)}
                  \subseteq DOMAIN memory) =>
            /\ phase' = "interrupts"
            /\ registers'.pc = read_word(memory, registers.pc + 1)
            /\ registers'.sp = registers.sp - 2
            /\ read_word(memory', registers.sp - 2)
                  = (registers.pc + 3) % 65536
       /\ (JustCalled /\ op' = 201 /\ my_counter' # my_counter) =>
            /\ phase' = "interrupts"
            /\ registers'.pc = read_word(memory, registers.sp)
            /\ registers'.sp = registers.sp + 2]_vars

-----------------------------------------------------------------------------
(* C16                                                                     *)

\* The opcodes executed that are no CALL, JP, JR, RET or RST, and their
\* declared length in bytes: the opcode byte, the CB prefix's sub-opcode
\* and the immediate bytes (0x10 is the two-byte STOP).
NonJumpOps ==
    {0, 6, 16, 49, 57, 62, 118, 193, 197, 203, 209, 213, 224, 225, 229, 232,
     234, 241, 243, 245, 248, 250, 251}
Length(o) ==
    CASE o \in {49, 234, 250} -> 3
      [] o \in {6, 16, 62, 203, 224, 232, 248} -> 2
      [] OTHER -> 1

\* C16: for every opcode that completes without error and is no
\* CALL/JP/JR/RET/RST, PC after the instruction (before any interrupt is
\* dispatched) is PC before plus the opcode's declared length, mod 65536.
C16_PcAdvancesByLength ==
    [][(/\ phase = "fetch"
        /\ phase' = "interrupts"
        /\ op' \in NonJumpOps) =>
        registers'.pc = (registers.pc + Length(op')) % 65536]_vars

-----------------------------------------------------------------------------
(* C17                                                                     *)

\* C17: every instruction executed, the first after power-on included,
\* produces an m-cycle count of 1, 2, 3, 4, 5 or 6: that count is what
\* _inc_clock adds to the clock.
C17_MCyclesBetween1And6 ==
    [][(phase = "fetch" /\ phase' = "interrupts") =>
        /\ registers'.m \in 1..6
        /\ clock' - clock \in 1..6]_vars

-----------------------------------------------------------------------------
(* C18                                                                     *)

\* The opcodes executed whose slot of opcode_map is unimplemented (RLA),
\* and the CB prefix, whose slots of cb_map may be.
UnimplementedOps == {23}
CbPrefix == 203

\* No cell of the memory has changed (cartridge cells may have been read
\* for the first time).
MemoryKept ==
    /\ \A a \in DOMAIN memory : a \in DOMAIN memory' /\ memory'[a] = memory[a]
    /\ \A a \in DOMAIN memory' \ DOMAIN memory : a < 32768

\* C18: the fetch of an opcode, or of a CB-prefixed sub-opcode, whose
\* slot is unimplemented ends the step with the unimplemented-opcode
\* error, PC at its value before the fetch, and the registers, the memory
\* and the PPU unchanged.
C18_UnimplementedRestoresPc ==
    [][(/\ phase = "fetch"
        /\ my_counter' # my_counter
        /\ ValidIndex(registers.pc)
        /\ \/ op' \in UnimplementedOps
           \/ op' = CbPrefix /\ phase' = "raised") =>
        /\ phase' = "raised"
        /\ registers'.pc = registers.pc
        /\ registers' = registers
        /\ MemoryKept
        /\ gpu' = gpu]_vars

-----------------------------------------------------------------------------
(* C19                                                                     *)

\* C19: every instruction of the coverage list is implemented: executing
\* an opcode of opcode_map (RLA among them) or a CB-prefixed opcode
\* (RLC (HL) among them) never ends in the unimplemented-opcode error.
C19_EveryOpcodeImplemented ==
    [][(/\ phase = "fetch"
        /\ my_counter' # my_counter
        /\ ValidIndex(registers.pc)
        /\ op' \in UnimplementedOps \cup {CbPrefix}) =>
        phase' # "raised"]_vars

-----------------------------------------------------------------------------
(* C20                                                                     *)

\* The immediate byte n as a two's-complement signed value.
Signed(n) == IF n >= 128 THEN n - 256 ELSE n

\* The operand byte of the instruction being executed, as signed.
Displacement == Signed(read_byte(memory', registers.pc + 1))

\* C20: JR e, JR cc,e, ADD SP,e and LD HL,SP+e take the immediate byte
\* as a two's-complement signed value: a JR, and a JR cc whose condition
\* holds (NZ: Z clear, Z: Z set), ends at the address after it plus e;
\* ADD SP,e leaves SP + e in SP and LD HL,SP+e leaves it in HL.
C20_ImmediateIsSigned ==
    [][(phase = "fetch" /\ phase' = "interrupts") =>
        /\ (\/ op' = 24
            \/ op' = 32 /\ Bit(registers.f, 7) = 0
            \/ op' = 40 /\ Bit(registers.f, 7) = 1) =>
               registers'.pc % 65536
                   = (registers.pc + 2 + Displacement) % 65536
        /\ op' = 232 =>
               registers'.sp = (registers.sp + Displacement) % 65536
        /\ op' = 248 =>
               registers'.h * 256 + registers'.l
                   = (registers.sp + Displacement) % 65536]_vars

-----------------------------------------------------------------------------
(* C21                                                                     *)

\* The condition of the JR cc with opcode o holds for the flags f.
JrCondition(o, f) ==
    CASE o = 32 -> Bit(f, 7) = 0
      [] o = 40 -> Bit(f, 7) = 1
      [] o = 48 -> Bit(f, 4) = 0
      [] o = 56 -> Bit(f, 4) = 1

\* The operand byte of the instruction being executed.
Operand == read_byte(memory', registers.pc + 1)

\* C21: JR cc,e (0x20, 0x28, 0x30, 0x38) whose condition holds is charged
\* 3 m-cycles and, for e in 0..127, ends at the address after it plus e;
\* one whose condition fails is charged 2 m-cycles and ends at the
\* address after it.
C21_JrCcChargesTakenOnlyWhenTaken ==
    [][(/\ phase = "fetch"
        /\ phase' = "interrupts"
        /\ op' \in {32, 40, 48, 56}) =>
        IF JrCondition(op', registers.f)
        THEN /\ clock' = clock + 3
             /\ registers'.m = 3
             /\ Operand <= 127 =>
                    registers'.pc % 65536
                        = (registers.pc + 2 + Operand) % 65536
        ELSE /\ clock' = clock + 2
             /\ registers'.m = 2
             /\ registers'.pc % 65536 = (registers.pc + 2) % 65536]_vars

\* C21 witness: a JR NC that was not taken has been charged 2 m-cycles,
\* after an instruction that changed the flags.
C21_Witness ==
    /\ phase = "interrupts"
    /\ op = 48
    /\ my_counter >= 2
    /\ Bit(registers.f, 4) = 1
    /\ registers.m = 2

-----------------------------------------------------------------------------
(* C22                                                                     *)

\* The CPU clocks of the instruction with opcode o in the table at the
\* head of cpu.py, the flags being f when it starts (RET cc: 20 when the
\* condition holds, 8 otherwise).
ManualClocks(o, f) ==
    CASE o \in {3, 11}  -> 8     \* INC ss, DEC ss
      [] o = 8          -> 20    \* LD (nn),SP
      [] o = 184        -> 4     \* CP r
      [] o = 192        -> IF Bit(f, 7) = 0 THEN 20 ELSE 8
      [] o = 200        -> IF Bit(f, 7) = 1 THEN 20 ELSE 8
      [] o = 195        -> 16    \* JP nn
      [] o \in {197, 213, 229, 245} -> 16    \* PUSH ss
      [] o = 199        -> 16    \* RST f
      [] o = 201        -> 16    \* RET
      [] o = 205        -> 24    \* CALL nn

\* C22: an instruction is charged the clocks of the table divided by 4:
\* JP nn 4, CALL nn 6, RET 4, RET cc 5 taken and 2 not taken, PUSH 4,
\* RST 4, INC rr and DEC rr 2, LD (nn),SP 5, CP r 1 m-cycles.
C22_MCyclesFollowManual ==
    [][(/\ phase = "fetch"
        /\ phase' = "interrupts"
        /\ op' \in CyclesOps) =>
        /\ clock' - clock = ManualClocks(op', registers.f) \div 4
        /\ registers'.m = ManualClocks(op', registers.f) \div 4]_vars

-----------------------------------------------------------------------------
(* C23                                                                     *)

\* The register the ALU opcode o takes its operand from (the low three
\* bits of o).
SourceOf(o) ==
    CASE o % 8 = 0 -> "b"
      [] o % 8 = 1 -> "c"
      [] o % 8 = 2 -> "d"
      [] o % 8 = 3 -> "e"
      [] o % 8 = 4 -> "h"
      [] o % 8 = 5 -> "l"
      [] o % 8 = 7 -> "a"

\* The flags of a - b - carry: Z from the result, N set, H and C the
\* borrows out of bit 3 and bit 7.
SubFlags(a, b, carry) ==
    (IF (a - b - carry) % 256 = 0 THEN 128 ELSE 0) + 64
        + (IF (a % 16) < (b % 16) + carry THEN 32 ELSE 0)
        + (IF a < b + carry THEN 16 ELSE 0)

\* C23: SUB r, SBC A,r and CP r, for r any of B, C, D, E, H, L, A, leave
\* in F the flags of A - r - carry (carry 0 for SUB and CP, the C flag
\* for SBC); SUB and SBC leave the difference mod 256 in A, CP leaves A
\* as it was.
C23_SubSbcCpFlags ==
    [][(/\ phase = "fetch"
        /\ phase' = "interrupts"
        /\ op' \in SubtractOps) =>
        LET a     == registers.a
            b     == registers[SourceOf(op')]
            carry == IF op' \in 152..159 THEN Bit(registers.f, 4) ELSE 0
        IN  /\ registers'.f = SubFlags(a, b, carry)
            /\ registers'.a = IF op' \in 184..191 THEN a
                              ELSE (a - b - carry) % 256]_vars

-----------------------------------------------------------------------------
(* C24                                                                     *)

\* The flags of a + b + carry: Z from the result, N clear, H and C the
\* carries out of bit 3 and bit 7.
AddFlags(a, b, carry) ==
    (IF (a + b + carry) % 256 = 0 THEN 128 ELSE 0)
        + (IF (a % 16) + (b % 16) + carry > 15 THEN 32 ELSE 0)
        + (IF a + b + carry > 255 THEN 16 ELSE 0)

\* The operand of the ADD or ADC with opcode o: a register, the byte at
\* HL or the immediate byte.
AddOperand(o) ==
    CASE o = 142 -> read_byte(memory', registers.h * 256 + registers.l)
      [] o = 206 -> read_byte(memory', registers.pc + 1)
      [] OTHER   -> registers[SourceOf(o)]

\* C24: ADD A,r and ADC A,s leave (A + b + carry) mod 256 in A and the
\* flags of that sum in F, the carry being 0 for ADD and the C flag for
\* ADC, for every operand, A itself included.
C24_AddAdcFlags ==
    [][(/\ phase = "fetch"
        /\ phase' = "interrupts"
        /\ op' \in AddOps \cup AdcOps \cup {142, 206}) =>
        LET a     == registers.a
            b     == AddOperand(op')
            carry == IF op' \in AddOps THEN 0 ELSE Bit(registers.f, 4)
        IN  /\ registers'.a = (a + b + carry) % 256
            /\ registers'.f = AddFlags(a, b, carry)]_vars

\* C24 witness: ADD A,B with A = 0x0F and B = 0x01 has left A = 0x10 and
\* F = 0x20.
C24_Witness ==
    /\ phase = "interrupts"
    /\ op = 128
    /\ registers.b = 1
    /\ registers.a = 16
    /\ registers.f = 32

-----------------------------------------------------------------------------
(* C25                                                                     *)

\* The register INC r or DEC r with opcode o changes (bits 3..5 of o).
TargetOf(o) ==
    CASE o \div 8 = 0 -> "b"
      [] o \div 8 = 1 -> "c"
      [] o \div 8 = 2 -> "d"
      [] o \div 8 = 3 -> "e"
      [] o \div 8 = 4 -> "h"
      [] o \div 8 = 5 -> "l"
      [] o \div 8 = 7 -> "a"

\* C25: INC r and DEC r leave the carry flag as it was, set Z from the
\* result, N to 0 (INC) or 1 (DEC) and H when the low nibble of the old
\* value was 0xF (INC) or 0 (DEC).
C25_IncDecKeepCarry ==
    [][(/\ phase = "fetch"
        /\ phase' = "interrupts"
        /\ op' \in IncOps \cup DecOps) =>
        LET old == registers[TargetOf(op')]
            new == registers'[TargetOf(op')]
        IN  /\ Bit(registers'.f, 4) = Bit(registers.f, 4)
            /\ Bit(registers'.f, 7) = (IF new = 0 THEN 1 ELSE 0)
            /\ Bit(registers'.f, 6) = (IF op' \in DecOps THEN 1 ELSE 0)
            /\ Bit(registers'.f, 5) =
                   (IF op' \in IncOps
                    THEN (IF old % 16 = 15 THEN 1 ELSE 0)
                    ELSE (IF old % 16 = 0 THEN 1 ELSE 0))]_vars

-----------------------------------------------------------------------------
(* C26                                                                     *)

\* The bit of a that the rotate with opcode o moves out: bit 7 for the
\* left rotates RLCA and RLA, bit 0 for the right rotates RRCA and RRA.
RotatedOut(o, a) == IF o \in {7, 23} THEN Bit(a, 7) ELSE Bit(a, 0)

\* C26: RLCA, RLA, RRCA and RRA leave Z, N and H clear whatever F was,
\* and C equal to the bit rotated out of A.
C26_AccumulatorRotateFlags ==
    [][(/\ phase = "fetch"
        /\ my_counter' # my_counter
        /\ ValidIndex(registers.pc)
        /\ op' \in {7, 15, 23, 31}) =>
        /\ phase' = "interrupts"
        /\ registers'.f = 16 * RotatedOut(op', registers.a)]_vars

-----------------------------------------------------------------------------
(* C27                                                                     *)

\* The value of the register pair ADD HL,rr with opcode o adds.
PairValue(o) ==
    CASE o = 9  -> registers.b * 256 + registers.c
      [] o = 25 -> registers.d * 256 + registers.e
      [] o = 41 -> registers.h * 256 + registers.l
      [] o = 57 -> registers.sp

\* C27: ADD HL,rr for rr = BC, DE, HL, SP leaves (HL + rr) mod 65536 in
\* HL, N clear, H and C the carries out of bit 11 and bit 15, and Z as it
\* was.
C27_AddHlFlags ==
    [][(/\ phase = "fetch"
        /\ phase' = "interrupts"
        /\ op' \in {9, 25, 41, 57}) =>
        LET hl == registers.h * 256 + registers.l
            rr == PairValue(op')
        IN  /\ registers'.h * 256 + registers'.l = (hl + rr) % 65536
            /\ Bit(registers'.f, 6) = 0
            /\ Bit(registers'.f, 5) =
                   (IF (hl % 4096) + (rr % 4096) > 4095 THEN 1 ELSE 0)
            /\ Bit(registers'.f, 4) = (IF hl + rr > 65535 THEN 1 ELSE 0)
            /\ Bit(registers'.f, 7) = Bit(registers.f, 7)]_vars

-----------------------------------------------------------------------------
(* C28                                                                     *)

\* The addresses the instruction with opcode o accesses besides its own:
\* the two operand bytes of LD SP,nn, the two cells below SP for a PUSH,
\* the two cells at SP for a POP.
StackAccesses(o) ==
    CASE o = 49 -> {registers.pc + 1, registers.pc + 2}
      [] o \in PushOps -> {registers.sp - 1, registers.sp - 2}
      [] o \in {193, 209, 225, 241} -> {registers.sp, registers.sp + 1}
      [] OTHER -> {}

\* C28: every address an instruction accesses, from the opcode fetch to
\* the second byte of a stack access, is within 0x0000..0xFFFF, and no
\* step ends in the error of an access out of range.
C28_AccessesWithin16Bits ==
    [][(phase = "fetch" /\ my_counter' # my_counter) =>
        /\ phase' # "raised"
        /\ \A x \in {registers.pc} \cup StackAccesses(op') :
               x >= 0 /\ x <= 65535]_vars

-----------------------------------------------------------------------------
(* C29                                                                     *)

\* The cells of the cartridge area 0x0000..0x7FFF whose byte is known.
RomCells == {x \in DOMAIN memory : x < 32768}

\* C29: no step changes a byte of the cartridge area 0x0000..0x7FFF: a
\* store there is ignored and a later read returns the cartridge byte.
C29_RomWritesIgnored ==
    [][\A x \in RomCells :
           x \in DOMAIN memory' /\ memory'[x] = memory[x]]_vars

-----------------------------------------------------------------------------
(* C30                                                                     *)

\* C30: LY (0xFF44) changes only as the PPU changes it, by one line at a
\* time or from 153 back to 0: a store of the program to 0xFF44 is
\* ignored.
C30_LyReadOnly ==
    [][\/ LY' = LY
       \/ LY' = LY + 1
       \/ LY = 153 /\ LY' = 0]_vars

-----------------------------------------------------------------------------
(* C31                                                                     *)

TIMA == read_byte(memory, IO_TIMA)
TMA  == read_byte(memory, IO_TMA)
TAC  == read_byte(memory, IO_TAC)

\* The machine cycles between two ticks of TIMA at the rate TAC bits 0-1
\* select: 4096 Hz, 262144 Hz, 65536 Hz and 16384 Hz of a 1048576 Hz
\* machine clock.
TimerPeriod(tac) ==
    CASE tac % 4 = 0 -> 256
      [] tac % 4 = 1 -> 4
      [] tac % 4 = 2 -> 16
      [] tac % 4 = 3 -> 64

\* C31: an instruction that runs with the timer on (TAC bit 2 set, TAC
\* and TMA not changed by it) and lasts at least one period of the rate
\* selected makes TIMA tick at least once: TIMA changes, or it overflowed
\* and IF bit 2 is set.
C31_TimaTicksWhileEnabled ==
    [][(/\ phase = "fetch"
        /\ phase' = "interrupts"
        /\ Bit(TAC, 2) = 1
        /\ TAC' = TAC
        /\ TMA' = TMA
        /\ clock' - clock >= TimerPeriod(TAC)) =>
        \/ TIMA' # TIMA
        \/ Bit(IF_', 2) = 1]_vars

-----------------------------------------------------------------------------
(* C32                                                                     *)

\* The cartridge type of the image in memory.
CartridgeType == read_byte(memory, 327)

\* C32: load_rom_image of an image whose type byte is not 0x00 does not
\* leave the machine ready to fetch its first instruction.
C32_NonRomOnlyImageRejected ==
    [][(phase = "constructed" /\ CartridgeType' # 0) =>
        phase' # "fetch"]_vars

-----------------------------------------------------------------------------
(* C33                                                                     *)

STAT == read_byte(memory, IO_STAT)
LYC  == read_byte(memory, IO_LYC)

\* C33: after every step of the GPU (each instruction that completes ends
\* with one), bits 0-1 of STAT are the mode and bit 3 of STAT is set
\* exactly when LY = LYC.
C33_StatCoherent ==
    [][(phase = "fetch" /\ phase' = "interrupts") =>
        /\ STAT' % 4 = gpu'.linemode
        /\ Bit(STAT', 3) = 1 <=> LY' = LYC']_vars

-----------------------------------------------------------------------------
(* C34                                                                     *)

LCDC == read_byte(memory, IO_LCDC)

\* C34: a GPU step that goes from DRAW (mode 3) to H-BLANK (mode 0) with
\* the display and the background on has drawn the line LY into the
\* framebuffer, whatever the number of frames shown so far.
C34_ScanlineRenderedOnDrawEnd ==
    [][(/\ phase = "fetch"
        /\ phase' = "interrupts"
        /\ gpu.linemode = 3
        /\ gpu'.linemode = 0
        /\ Bit(LCDC', 7) = 1
        /\ Bit(LCDC', 0) = 1) =>
        LY' \in gpu'.screen]_vars

-----------------------------------------------------------------------------
(* C35                                                                     *)

\* C35: RST n, fetched with room for two bytes below SP, ends without an
\* error, with SP lower by 2, the address after the opcode stored at the
\* new SP (low byte first) and PC = n, for each of the eight opcodes
\* 0xC7 + n.
C35_RstPushesAndJumps ==
    [][(/\ phase = "fetch"
        /\ my_counter' # my_counter
        /\ ValidIndex(registers.pc)
        /\ registers.sp \in 2..65535
        /\ op' \in RstOps) =>
        /\ phase' = "interrupts"
        /\ registers'.sp = registers.sp - 2
        /\ read_word(memory', registers'.sp) = (registers.pc + 1) % 65536
        /\ registers'.pc = op' - 199]_vars

-----------------------------------------------------------------------------
(* C38                                                                     *)

\* The vectors of the five interrupts.
Vectors == {64, 72, 80, 88, 96}

\* The registers _rsv and _rrs copy.
ByteRegisters == {"a", "b", "c", "d", "e", "f", "h", "l"}

\* C38: a RETI that is the first instruction of an interrupt handler (PC
\* at a vector, IME cleared by the dispatch, the interrupted PC on top of
\* the stack) ends with PC the address popped, SP higher by 2, IME = 1
\* and A, B, C, D, E, F, H and L as they were.
C38_RetiRestoresInterruptedState ==
    [][(/\ phase = "fetch"
        /\ my_counter' # my_counter
        /\ registers.pc \in Vectors
        /\ registers.ime = 0
        /\ registers.sp \in 0..65534
        /\ op' = 217) =>
        /\ phase' = "interrupts"
        /\ registers'.pc = read_word(memory, registers.sp)
        /\ registers'.sp = registers.sp + 2
        /\ registers'.ime = 1
        /\ \A r \in ByteRegisters : registers'[r] = registers[r]]_vars

-----------------------------------------------------------------------------
(* C36                                                                     *)

\* The flags Z, N, H and C of the flag byte f.
Zf(f) == Bit(f, 7)
Nf(f) == Bit(f, 6)
Hf(f) == Bit(f, 5)
Cf(f) == Bit(f, 4)

\* C36: CPL complements A, sets N and H and keeps Z and C; CCF inverts C,
\* clears N and H and keeps Z; SCF sets C, clears N and H and keeps Z.
C36_CplCcfScfFlags ==
    [][(/\ phase = "fetch"
        /\ my_counter' # my_counter
        /\ ValidIndex(registers.pc)
        /\ op' \in {47, 55, 63}) =>
        LET f == registers.f
            g == registers'.f
        IN  /\ phase' = "interrupts"
            /\ Zf(g) = Zf(f)
            /\ op' = 47 => /\ registers'.a = 255 - registers.a
                           /\ Nf(g) = 1 /\ Hf(g) = 1 /\ Cf(g) = Cf(f)
            /\ op' = 63 => /\ registers'.a = registers.a
                           /\ Nf(g) = 0 /\ Hf(g) = 0 /\ Cf(g) = 1 - Cf(f)
            /\ op' = 55 => /\ registers'.a = registers.a
                           /\ Nf(g) = 0 /\ Hf(g) = 0 /\ Cf(g) = 1]_vars

-----------------------------------------------------------------------------
(* C37                                                                     *)

\* The amount DAA adjusts a by, after an addition (N clear) or a
\* subtraction (N set), and the carry it leaves.
DaaCarry(a, f) ==
    IF Cf(f) = 1 \/ (Nf(f) = 0 /\ a > 153) THEN 1 ELSE 0

DaaAdjust(a, f) ==
    (IF Hf(f) = 1 \/ (Nf(f) = 0 /\ a % 16 > 9) THEN 6 ELSE 0)
    + 96 * DaaCarry(a, f)

DaaResult(a, f) ==
    IF Nf(f) = 0 THEN (a + DaaAdjust(a, f)) % 256
    ELSE (a - DaaAdjust(a, f)) % 256

\* C37: DAA replaces A by its packed-BCD adjustment, sets Z from the
\* result, keeps N, clears H and sets C when the adjustment carried.
C37_DaaAdjustsToBcd ==
    [][(/\ phase = "fetch"
        /\ my_counter' # my_counter
        /\ ValidIndex(registers.pc)
        /\ op' = 39) =>
        LET a == registers.a
            f == registers.f
            r == DaaResult(a, f)
        IN  /\ phase' = "interrupts"
            /\ registers'.a = r
            /\ Zf(registers'.f) = (IF r = 0 THEN 1 ELSE 0)
            /\ Nf(registers'.f) = Nf(f)
            /\ Hf(registers'.f) = 0
            /\ Cf(registers'.f) = DaaCarry(a, f)]_vars

-----------------------------------------------------------------------------
(* C39                                                                     *)

\* The mode clock at which the handler of a mode ends the mode: H-BLANK,
\* V-BLANK (one line), OAM and DRAW.
Threshold(mode) ==
    CASE mode = 0 -> 51
      [] mode = 1 -> 114
      [] mode = 2 -> 20
      [] mode = 3 -> 43

\* C39: between the calls of GbGpu.step the mode clock is below the
\* threshold of the mode the GPU is in.
C39_ModeClockBelowThreshold ==
    gpu.mode_clock < Threshold(gpu.linemode)

\* C39: steps have taken the GPU through a frame to the last line of
\* the V-blank, one cycle before the threshold.
C39_Witness ==
    /\ gpu.linemode = 1
    /\ LY = 153
    /\ gpu.mode_clock = 113

-----------------------------------------------------------------------------
(* C40                                                                     *)

\* The GPU has just entered the V-blank: mode 1 at line 144 with the
\* V-blank interrupt requested.
VBlankEntered ==
    /\ gpu.linemode = 1
    /\ LY = 144
    /\ Bit(IF_, 0) = 1

\* The run has ended: an exception or sys.exit left the driver's loop.
RunEnded == phase \in {"raised", "exited"}

\* The driver keeps executing instructions: it does not rest at an
\* instruction boundary with instructions of the run left.
KeepsExecuting == []<>~(phase = "fetch" /\ my_counter < MaxInstrLcd)

=============================================================================
